---- MODULE Spec2Model ----
(***************************************************************************)
(* Model of the task-cycle orchestrator of BSS Pro Macro                   *)
(* (src/main_controller.py, MacroController) together with the two safety  *)
(* managers its loop consults (src/core_systems.py SafetyManager,          *)
(* src/advanced_safety.py AdvancedSafetyManager).                          *)
(*                                                                         *)
(* One thread executes MacroController.run(); the presentation layer and   *)
(* the hotkey handler call stop(), pause() and resume() from other         *)
(* threads, so those actions interleave with every step of run().          *)
(* The clock counts units of two hours.                                    *)
(***************************************************************************)
EXTENDS Naturals, Integers, Sequences, FiniteSets, TLC

\* ---------------------------------------------------------------- constants
\* `errors_encountered > 10` ends the loop
ErrorBudget == 10
\* generate_break_schedule: session_duration = 8 * 3600 s = 4 clock units
SessionDuration == 4
\* setup_emergency_triggers: time_limit 10 * 3600 s = 5 clock units
TimeLimit == 5
\* generate_break_schedule: random.randint(3, 8)
BreakCountMin == 3
BreakCountMax == 8
\* safety.break_interval_min / break_interval_max (1800 s, 3600 s): both lie
\* within one clock unit, so a whole unit elapsed always reaches the interval
BreakIntervalMin == 1
BreakIntervalMax == 1
\* check_system_resource_trigger thresholds (percent)
CpuEmergency == 90
MemEmergency == 95
\* check_system_resources thresholds (percent)
MemAdvisory == 90
CpuAdvisory == 85
DiskAdvisory == 95
\* check_mouse_corner_trigger: corner_threshold (pixels)
CornerThreshold == 5
\* PatternBreaker.pattern_threshold
PatternThreshold == 5
\* record_action: cutoff_time = time.time() - 300 s = 3 journal clock units
RetentionWindow == 3
\* InputAutomation.action_delay_base: 0.1 s = 2 units of the input clock
ActionDelayBase == 2
\* detect_bot_patterns: time.time() % 3600, in units of 10 s
HourLen == 360
\* detect_bot_patterns: ... < 60, in units of 10 s
DecayWindow == 6
\* detect_bot_patterns: len(self.activity_log) < 10
MinActivityLog == 10
\* planter_data[...]['growth_time'], in units of the planter clock
GrowthTime == 2

\* ------------------------------------------------------------------- bounds
\* the clock stops advancing here
MaxTime == 1
\* largest break count drawn when the schedule is generated
MaxBreakCount == 3
\* cap of the statistics counters driven by handlers
MaxStat == 1
\* sessions (calls of run) on one controller
MaxSessions == 2
\* threads the Start button creates in one run of the GUI
MaxGuiThreads == 3
\* points at which a draw of random.uniform is followed inside its interval,
\* both ends included (UniformSteps + 1 points)
UniformSteps == 2
\* pointer positions are drawn up to this many pixels to either side of
\* each edge of the screen
MaxOffset == 6
\* configuration documents are numbered in the order in which they are
\* loaded; the last one the user interface may load has this number
MaxDocs == 2
\* the journal clock stops advancing here
MaxJournalTime == 4
\* record_action is followed while the journal has fewer entries than this
MaxJournalLen == 6
\* largest click_/movement_/pause_randomization of a document, in tenths
MaxVariance == 2
\* the boost clock stops advancing here
MaxBoostTime == 1
\* calls of manage_all_boosts followed
MaxBoostCycles == 2
\* the planter clock stops advancing here
MaxPlanterTime == 3
\* calls of manage_planters followed
MaxPlanterCycles == 3
\* the statistics clock stops advancing here
MaxLedgerTime == 8
\* amounts added to one counter
MaxRecords == 2
\* the monitor is followed for this long past the hour
MaxMonitorTime == 370
\* check_regular_timing is taken to report while bot_indicators is below this
MaxIndicators == 4
\* the input clock stops advancing here
MaxInputTime == 6
\* input actions followed
MaxActions == 3
\* macro threads alive at once that share the controller's InputAutomation
MaxInputThreads == 2

\* ------------------------------------------------------------------ domains
Priority == <<"quests", "farming", "mobs", "planters", "boosts", "maintenance">>
Categories == {Priority[i] : i \in 1..Len(Priority)}

\* The configuration documents run() is given.  A section can be enabled,
\* disabled or absent: the controller's own default document has no planters
\* and no boosts section, the application default has every section.
FullConfig ==
  [quests |-> "on", farming |-> "on", mobs |-> "on", planters |-> "on", boosts |-> "on"]
Configs ==
  { FullConfig,
    [FullConfig EXCEPT !.quests = "off", !.mobs = "off", !.boosts = "missing"],
    [FullConfig EXCEPT !.farming = "off", !.planters = "missing"] }

Pointers == {"origin", "center"}
CpuReadings == {50, 88, 95}
MemReadings == {50, 93, 97}
DiskReadings == {50, 97}

VARIABLES
  config,            \* MacroController.config
  running,           \* MacroController.running
  paused,            \* MacroController.paused
  session_stats,     \* MacroController.session_stats (counters)
  emergency_stop,    \* SafetyManager.emergency_stop
  last_break_time,   \* SafetyManager.last_break_time
  safety_enabled,    \* AdvancedSafetyManager.safety_enabled
  break_schedule,    \* AdvancedSafetyManager.break_schedule
  now,               \* time.time()
  pointer,           \* pyautogui.position()
  pc,                \* position of the thread executing run()
  exitReason,        \* which branch ended the loop of the current session
  raisedAt,          \* where the exception being handled was raised
  gate,              \* outcome of the loop condition in this iteration
  breakChecked,      \* should_take_break was evaluated in this iteration
  dispatched,        \* handlers called in this iteration, in call order
  handlerFailed,     \* a handler logged an exception of its own in this iteration
  sessions,          \* calls of run() so far
  stopMidGate,       \* stop() came after this iteration had read `running`
  cyclesAfterStop,   \* macro cycles started since stop(), this session
  preflight,         \* <<results of the checks of pre_flight_checks>> until run() branches on them
  snapshots,         \* session_stats_*.json written since this session began, oldest first
  cleanupResult,     \* what the cleanup() of run()'s finally clause did, this session
  appClosed,         \* BSSProMacro.cleanup has run: the application is exiting
  gui_running,       \* MacroGUI.running
  gui_buttons,       \* which of the Start / Pause / Stop buttons accept a click
  thread_pc,         \* position of each thread MacroGUI has created
  after_queue,       \* stop_macro callbacks queued by root.after and not yet run
  trig_list,         \* AdvancedSafetyManager.emergency_triggers
  trig_env,          \* what the trigger primitives read during one evaluation
  trig_i,            \* index of the trigger the for loop is at, 0 before the call
  trig_evaluated,    \* types of the triggers whose primitive was called
  trig_result,       \* kind reported by check_emergency_triggers
  safe_result,       \* value returned by SafetyManager.is_safe_to_continue
  sched_count,       \* break_count drawn by generate_break_schedule
  sched_out,         \* entries appended so far by generate_break_schedule
  res_pc,            \* position inside one call of check_safety_conditions
  res_samples,       \* the psutil readings taken during that call, in order
  res_verdict,       \* what the call made of them
  corner_in,         \* <<pointer position and screen size>> read by check_mouse_corner_trigger
  corner_out,        \* value returned by check_mouse_corner_trigger
  doc_held,          \* which configuration document each holder's self.config refers to
  doc_read,          \* the document each component's latest read of self.config came from
  cfg_file,          \* what load_config finds under the name of the configuration file
  cfg_doc,           \* <<document returned by load_config>>
  construct_pc,      \* position inside MacroController.__init__
  action_history,    \* PatternBreaker.action_history
  journal_now,       \* time.time() as PatternBreaker reads it
  break_pattern,     \* value returned by the latest should_break_pattern
  rnd_cfg,           \* the configuration the randomizer and the input service hold
  rnd_call,          \* <<the latest call of one of their functions, with its result>>
  in_now,            \* time.time() as InputAutomation reads it
  last_action_time,  \* InputAutomation.last_action_time
  in_pc,             \* position of each macro thread inside _is_safe_to_act
  in_wake,           \* when the time.sleep of each thread is over
  admitted,          \* times at which last_action_time was written, in order
  mon_now,           \* time.time() as the activity monitor reads it, in units of 10 s
  mon_last,          \* when activity_monitoring_loop last went round, -1 before
  activity_count,    \* len(ActivityMonitor.activity_log), 10 standing for 10 or more
  bot_indicators,    \* ActivityMonitor.bot_indicators
  decay_times,       \* times of the two latest calls that lowered bot_indicators
  led_now,           \* time.time() as the statistics read it, in seconds
  led_start,         \* <<MacroController.start_time>>, empty while it is None
  led_stats,         \* the accumulated counters and the runtime of MacroController.session_stats
  led_deltas,        \* the amounts added to each counter since construction, in order
  led_snapshot,      \* <<the value returned by the get_session_stats just made>>
  planter_now,       \* time.time() as PlanterManager reads it
  active_planters,   \* PlanterManager.active_planters: <<entry>> per field that has one
  planter_pc,        \* position inside manage_planters
  planter_cycles,    \* calls of manage_planters so far
  boost_now,         \* time.time() as BoostManager reads it, in units of 15 min
  active_boosts,     \* BoostManager.active_boosts: <<entry>> per boost type that has one
  boost_pc,          \* position inside manage_all_boosts
  boost_cycles,      \* calls of manage_all_boosts so far
  boost_used,        \* boost types _use_boost has activated in this call, in order
  boost_live         \* <<time of activation>> of each boost the game shows as active

vars == <<config, running, paused, session_stats, emergency_stop,
          last_break_time, safety_enabled, break_schedule, now, pointer, pc,
          exitReason, raisedAt, gate, breakChecked, dispatched,
          handlerFailed, sessions, stopMidGate, cyclesAfterStop,
          preflight, snapshots, cleanupResult, appClosed,
          gui_running, gui_buttons, thread_pc, after_queue,
          trig_list, trig_env, trig_i, trig_evaluated, trig_result, safe_result,
          sched_count, sched_out,
          res_pc, res_samples, res_verdict, corner_in, corner_out,
          doc_held, doc_read, cfg_file, cfg_doc, construct_pc,
          action_history, journal_now, break_pattern, rnd_cfg, rnd_call,
          in_now, last_action_time, in_pc, in_wake, admitted,
          mon_now, mon_last, activity_count, bot_indicators, decay_times,
          led_now, led_start, led_stats, led_deltas, led_snapshot,
          planter_now, active_planters, planter_pc, planter_cycles,
          boost_now, active_boosts, boost_pc, boost_cycles, boost_used, boost_live>>

ctlVars == <<config, running, paused>>
statVars == <<session_stats>>
safetyVars == <<emergency_stop, last_break_time, safety_enabled, break_schedule>>
envVars == <<now, pointer>>
iterVars == <<gate, breakChecked, dispatched, handlerFailed>>
stopVars == <<stopMidGate, cyclesAfterStop>>
persistVars == <<snapshots, cleanupResult, appClosed>>
guiVars == <<gui_running, gui_buttons, thread_pc, after_queue>>
trigVars == <<trig_list, trig_env, trig_i, trig_evaluated, trig_result, safe_result>>
schedVars == <<sched_count, sched_out>>
resVars == <<res_pc, res_samples, res_verdict>>
cornerVars == <<corner_in, corner_out>>
docVars == <<doc_held, doc_read>>
cfgVars == <<cfg_file, cfg_doc, construct_pc>>
journalVars == <<action_history, journal_now, break_pattern>>
rndVars == <<rnd_cfg, rnd_call>>
inputVars == <<in_now, last_action_time, in_pc, in_wake, admitted>>
monitorVars == <<mon_now, mon_last, activity_count, bot_indicators, decay_times>>
ledgerVars == <<led_now, led_start, led_stats, led_deltas, led_snapshot>>
planterVars == <<planter_now, active_planters, planter_pc, planter_cycles>>
boostVars == <<boost_now, active_boosts, boost_pc, boost_cycles, boost_used, boost_live>>
\* variables of the functions that are followed on their own
funVars == <<trigVars, schedVars, resVars, cornerVars, docVars, cfgVars,
             journalVars, rndVars,
             inputVars,
             monitorVars,
             ledgerVars,
             planterVars,
             boostVars>>
\* variables the orchestrator loop does not touch
otherVars == <<guiVars, funVars>>
auxVars == <<preflight, persistVars, otherVars>>

Min(a, b) == IF a < b THEN a ELSE b

\* -------------------------------------------------------- reset_session_stats
reset_session_stats ==
  [errors_encountered |-> 0, breaks_taken |-> 0, fields_visited |-> 0]

\* ---------------------------------------------------- generate_break_schedule
\* Entry i (0-based) is drawn by random.uniform between
\* i * session_duration / n and (i + 1) * session_duration / n.  The
\* orchestrator is followed with entries at the whole clock units of the slot
\* short of its upper end; generate_break_schedule_step below follows the
\* draw itself, both ends included.
SlotTimes(i, n) ==
  {t \in 0..SessionDuration : i * SessionDuration <= t * n
                              /\ t * n < (i + 1) * SessionDuration}

generate_break_schedule ==
  UNION { { s \in [1..n -> [time : 0..SessionDuration, taken : {FALSE}]] :
              \A i \in 1..n : s[i].time \in SlotTimes(i - 1, n) } :
          n \in BreakCountMin..Min(BreakCountMax, MaxBreakCount) }

InitOrchestrator ==
  /\ config \in Configs
  /\ running = FALSE
  /\ paused = FALSE
  /\ session_stats = reset_session_stats
  /\ emergency_stop = FALSE
  /\ last_break_time = 0
  /\ safety_enabled \in BOOLEAN
  /\ break_schedule \in (IF safety_enabled THEN generate_break_schedule ELSE {<<>>})
  /\ now = 0
  /\ pointer = "center"
  /\ pc = "idle"
  /\ exitReason = "none"
  /\ raisedAt = "none"
  /\ gate = "none"
  /\ breakChecked = FALSE
  /\ dispatched = <<>>
  /\ handlerFailed = FALSE
  /\ sessions = 0
  /\ stopMidGate = FALSE
  /\ cyclesAfterStop = 0
  /\ preflight = <<>>
  /\ snapshots = <<>>
  /\ cleanupResult = "none"
  /\ appClosed = FALSE

\* MacroGUI.__init__ and setup_ui: not running, only Start accepts a click
GuiThreads == 1..MaxGuiThreads

InitGui ==
  /\ gui_running = FALSE
  /\ gui_buttons = "stopped"
  /\ thread_pc = [th \in GuiThreads |-> "new"]
  /\ after_queue = 0

\* no evaluation of the emergency triggers has been requested
TrigIdle ==
  /\ trig_list = <<>>
  /\ trig_env = <<>>
  /\ trig_i = 0
  /\ trig_evaluated = <<>>
  /\ trig_result = "pending"
  /\ safe_result = "pending"

\* generate_break_schedule is not being stepped through
SchedIdle ==
  /\ sched_count = 0
  /\ sched_out = <<>>

\* check_safety_conditions is not being stepped through
ResIdle ==
  /\ res_pc = "idle"
  /\ res_samples = <<>>
  /\ res_verdict = "pending"

\* check_mouse_corner_trigger has not been called
CornerIdle ==
  /\ corner_in = <<>>
  /\ corner_out = "pending"

\* who holds which configuration document is not being followed
DocIdle ==
  /\ doc_held = <<>>
  /\ doc_read = <<>>

\* the construction of the controller is not being stepped through
CfgIdle ==
  /\ cfg_file = [kind |-> "unread", content |-> <<>>]
  /\ cfg_doc = <<>>
  /\ construct_pc = "idle"

\* PatternBreaker.__init__
JournalIdle ==
  /\ action_history = <<>>
  /\ journal_now = 0
  /\ break_pattern = "pending"

\* no function of the randomizer or of the input service is being followed
RndIdle ==
  /\ rnd_cfg = <<>>
  /\ rnd_call = <<>>

\* no call of the input service is being followed
InputIdle ==
  /\ in_now = 0
  /\ last_action_time = 0
  /\ in_pc = <<>>
  /\ in_wake = <<>>
  /\ admitted = <<>>

\* the activity monitoring loop is not being followed
MonitorIdle ==
  /\ mon_now = 0
  /\ mon_last = -1
  /\ activity_count = 0
  /\ bot_indicators = 0
  /\ decay_times = <<>>

\* the statistics of the session are not being followed on their own
LedgerIdle ==
  /\ led_now = 0
  /\ led_start = <<>>
  /\ led_stats = <<>>
  /\ led_deltas = <<>>
  /\ led_snapshot = <<>>

\* manage_planters is not being followed
PlanterIdle ==
  /\ planter_now = 0
  /\ active_planters = <<>>
  /\ planter_pc = "idle"
  /\ planter_cycles = 0

\* manage_all_boosts is not being followed
BoostIdle ==
  /\ boost_now = 0
  /\ active_boosts = <<>>
  /\ boost_pc = "idle"
  /\ boost_cycles = 0
  /\ boost_used = <<>>
  /\ boost_live = <<>>

Init ==
  /\ InitOrchestrator
  /\ InitGui
  /\ BoostIdle
  /\ PlanterIdle
  /\ LedgerIdle
  /\ MonitorIdle
  /\ InputIdle
  /\ TrigIdle
  /\ SchedIdle
  /\ ResIdle /\ CornerIdle /\ DocIdle /\ CfgIdle /\ JournalIdle /\ RndIdle

\* ------------------------------------------------- AdvancedSafetyManager
\* __init__: self.last_activity_time = time.time(), never written again
last_activity_time == 0

setup_emergency_triggers ==
  << [type |-> "mouse_corner", active |-> TRUE],
     [type |-> "key_combo", active |-> TRUE],
     [type |-> "process_monitor", active |-> TRUE],
     [type |-> "system_resource", active |-> TRUE],
     [type |-> "time_limit", active |-> TRUE] >>

\* "origin" is (0,0); "center" is farther than 5 px from every corner
check_mouse_corner_trigger(ptr) == ptr = "origin"

check_system_resource_trigger(cpu, mem) == cpu > CpuEmergency \/ mem > MemEmergency

check_time_limit_trigger(t, limit) == t - last_activity_time >= limit

TriggerFires(trigger, ptr, keys, proc, cpu, mem, t) ==
  CASE trigger.type = "mouse_corner" -> check_mouse_corner_trigger(ptr)
    [] trigger.type = "key_combo" -> keys
    [] trigger.type = "process_monitor" -> proc
    [] trigger.type = "system_resource" -> check_system_resource_trigger(cpu, mem)
    [] trigger.type = "time_limit" -> check_time_limit_trigger(t, TimeLimit)

\* the type of the first active trigger that fires, "none" when none does
RECURSIVE FirstTrigger(_, _, _, _, _, _, _, _)
FirstTrigger(triggers, i, ptr, keys, proc, cpu, mem, t) ==
  IF i > Len(triggers) THEN "none"
  ELSE IF triggers[i].active /\ TriggerFires(triggers[i], ptr, keys, proc, cpu, mem, t)
       THEN triggers[i].type
       ELSE FirstTrigger(triggers, i + 1, ptr, keys, proc, cpu, mem, t)

check_emergency_triggers(ptr, keys, proc, cpu, mem, t) ==
  FirstTrigger(setup_emergency_triggers, 1, ptr, keys, proc, cpu, mem, t) # "none"

\* the break-due check without its test of the taken flag
check_scheduled_breaks_ignores_taken(schedule, t) ==
  LET due == {i \in 1..Len(schedule) : t >= schedule[i].time}
  IN IF due = {} THEN 0 ELSE CHOOSE i \in due : \A j \in due : i <= j

\* index of the first entry that is not taken and whose time has come, 0 if none
check_scheduled_breaks(schedule, t) ==
  LET due == {i \in 1..Len(schedule) : ~schedule[i].taken /\ t >= schedule[i].time}
  IN IF due = {} THEN 0 ELSE CHOOSE i \in due : \A j \in due : i <= j

take_scheduled_break(schedule, i) == [schedule EXCEPT ![i].taken = TRUE]

check_system_resources(cpu, mem, disk) ==
  ~(mem > MemAdvisory) /\ ~(cpu > CpuAdvisory) /\ ~(disk > DiskAdvisory)

\* ----------------------------------------------------------- SafetyManager
should_take_break(t, interval) ==
  IF BreakIntervalMin = 0 THEN FALSE ELSE t - last_break_time >= interval

\* ------------------------------------------------------- MacroController.run
IterReset ==
  /\ gate' = "none"
  /\ breakChecked' = FALSE
  /\ dispatched' = <<>>
  /\ handlerFailed' = FALSE
  /\ raisedAt' = "none"

LoopExit(reason) ==
  /\ pc' = "cleanup"
  /\ exitReason' = reason

\* run(): lines 124-134, up to the pre-flight checks
run ==
  /\ pc = "idle"
  /\ ~appClosed
  /\ sessions < MaxSessions
  /\ \E c \in Configs : config' = c
  /\ running' = TRUE
  /\ paused' = FALSE
  /\ pc' = "preflight"
  /\ exitReason' = "none"
  /\ sessions' = sessions + 1
  /\ stopMidGate' = FALSE
  /\ cyclesAfterStop' = 0
  /\ IterReset
  /\ snapshots' = <<>>
  /\ cleanupResult' = "none"
  /\ UNCHANGED <<statVars, safetyVars, envVars, preflight, appClosed, otherVars>>

\* What the checks of pre_flight_checks find, in the order they are made:
\* check_roblox_running, check_bss_loaded (its template search can throw),
\* check_templates and test_input_system.  A check after the first `return
\* False` is not made ("skipped").
PreFlightSamples ==
  { [roblox |-> "absent", bss |-> "skipped", templates |-> "skipped", input |-> "skipped"] }
  \cup { [roblox |-> "running", bss |-> b, templates |-> "skipped", input |-> "skipped"] :
            b \in {"absent", "raises"} }
  \cup { [roblox |-> "running", bss |-> "found", templates |-> t, input |-> i] :
            t \in {"present", "missing"}, i \in {"works", "fails"} }

\* The value pre_flight_checks returns for a sample: a failed check_templates
\* is only logged as a warning.
PreFlightVerdict(r) ==
  IF r.roblox = "absent" THEN "fail"
  ELSE IF r.bss = "raises" THEN "raises"
  ELSE IF r.bss = "absent" THEN "fail"
  ELSE IF r.input = "fails" THEN "fail"
  ELSE "pass"

\* pre_flight_checks(): the checks are made
pre_flight_checks ==
  /\ pc = "preflight"
  /\ \E r \in PreFlightSamples : preflight' = <<r>>
  /\ pc' = "preflight_branch"
  /\ UNCHANGED <<ctlVars, statVars, safetyVars, envVars, iterVars, raisedAt,
                 sessions, stopVars, exitReason, persistVars, otherVars>>

\* preflight_branch whose `return False` is not covered by the finally clause
preflight_branch_skips_cleanup ==
  /\ pc = "preflight_branch"
  /\ CASE PreFlightVerdict(preflight[1]) = "pass" ->
            pc' = "loop_running" /\ UNCHANGED exitReason
       [] PreFlightVerdict(preflight[1]) = "fail" ->
            pc' = "idle" /\ exitReason' = "preflight"
       [] PreFlightVerdict(preflight[1]) = "raises" -> LoopExit("fatal")
  /\ preflight' = <<>>
  /\ UNCHANGED <<ctlVars, statVars, safetyVars, envVars, iterVars, raisedAt,
                 sessions, stopVars, persistVars, otherVars>>

\* `if not self.pre_flight_checks(): return False`; an exception raised by a
\* check is caught by the outer `except Exception`
preflight_branch ==
  /\ pc = "preflight_branch"
  /\ CASE PreFlightVerdict(preflight[1]) = "pass" ->
            pc' = "loop_running" /\ UNCHANGED exitReason
       [] PreFlightVerdict(preflight[1]) = "fail" -> LoopExit("preflight")
       [] PreFlightVerdict(preflight[1]) = "raises" -> LoopExit("fatal")
  /\ preflight' = <<>>
  /\ UNCHANGED <<ctlVars, statVars, safetyVars, envVars, iterVars, raisedAt,
                 sessions, stopVars, persistVars, otherVars>>

\* while_running with the running flag ignored
while_running_ignores_flag ==
  /\ pc = "loop_running"
  /\ pc' = "loop_safe"
  /\ UNCHANGED <<ctlVars, statVars, safetyVars, envVars, iterVars, raisedAt, sessions, stopVars, exitReason>>
  /\ UNCHANGED auxVars

\* `while self.running and ...`: the first conjunct
while_running ==
  /\ pc = "loop_running"
  /\ IF running THEN pc' = "loop_safe" /\ UNCHANGED exitReason
                ELSE LoopExit("stop")
  /\ UNCHANGED <<ctlVars, statVars, safetyVars, envVars, iterVars, raisedAt, sessions, stopVars>>
  /\ UNCHANGED auxVars

\* is_safe_to_continue without `if self.emergency_stop: return False`
is_safe_to_continue_forgets ==
  /\ pc = "loop_safe"
  /\ \E keys \in {"up", "held", "throws"} :
       IF pointer = "origin" \/ keys = "held"
       THEN /\ emergency_stop' = TRUE
            /\ LoopExit("emergency") /\ gate' = "failed"
       ELSE IF keys = "throws"
       THEN /\ LoopExit("fatal") /\ gate' = "failed"
            /\ UNCHANGED emergency_stop
       ELSE /\ pc' = "loop_adv"
            /\ UNCHANGED <<emergency_stop, exitReason, gate>>
  /\ UNCHANGED <<ctlVars, statVars, last_break_time, safety_enabled,
                 break_schedule, envVars, breakChecked, dispatched,
                 handlerFailed, raisedAt, sessions, stopVars>>
  /\ UNCHANGED auxVars

\* `... and self.safety_manager.is_safe_to_continue() and ...`
\* check_emergency_conditions reads the pointer and the keyboard; a keyboard
\* primitive that throws leaves the loop through the outer `except Exception`
is_safe_to_continue ==
  /\ pc = "loop_safe"
  /\ \E keys \in {"up", "held", "throws"} :
       IF emergency_stop
       THEN /\ LoopExit("emergency") /\ gate' = "failed"
            /\ UNCHANGED emergency_stop
       ELSE IF pointer = "origin" \/ keys = "held"
       THEN /\ emergency_stop' = TRUE
            /\ LoopExit("emergency") /\ gate' = "failed"
       ELSE IF keys = "throws"
       THEN /\ LoopExit("fatal") /\ gate' = "failed"
            /\ UNCHANGED emergency_stop
       ELSE /\ pc' = "loop_adv"
            /\ UNCHANGED <<emergency_stop, exitReason, gate>>
  /\ UNCHANGED <<ctlVars, statVars, last_break_time, safety_enabled,
                 break_schedule, envVars, breakChecked, dispatched,
                 handlerFailed, raisedAt, sessions, stopVars>>
  /\ UNCHANGED auxVars

\* `... and self.advanced_safety.check_safety_conditions()`
\* The keyboard, the process list and the resource readings are sampled by
\* the call; the emergency triggers and check_system_resources each take
\* their own sample.
EmergencySample(fires) ==
  \E keys \in BOOLEAN, proc \in BOOLEAN, cpu \in CpuReadings, mem \in MemReadings :
     check_emergency_triggers(pointer, keys, proc, cpu, mem, now) = fires

ResourceSample(adequate) ==
  \E cpu \in CpuReadings, mem \in MemReadings, disk \in DiskReadings :
     check_system_resources(cpu, mem, disk) = adequate

check_safety_conditions ==
  /\ pc = "loop_adv"
  /\ LET due == check_scheduled_breaks(break_schedule, now) IN
     \/ /\ ~safety_enabled
        /\ pc' = "pause_check" /\ gate' = "passed"
        /\ UNCHANGED <<exitReason, break_schedule, now>>
     \/ /\ safety_enabled
        /\ EmergencySample(TRUE)
        /\ LoopExit("emergency") /\ gate' = "failed"
        /\ UNCHANGED <<break_schedule, now>>
     \/ /\ safety_enabled
        /\ EmergencySample(FALSE)
        /\ due # 0
        /\ break_schedule' = take_scheduled_break(break_schedule, due)
        /\ \E slept \in 0..1 : now' = IF now + slept <= MaxTime THEN now + slept ELSE now
        /\ LoopExit("scheduled_break") /\ gate' = "failed"
     \/ /\ safety_enabled
        /\ EmergencySample(FALSE)
        /\ due = 0
        /\ ResourceSample(FALSE)
        /\ LoopExit("resources") /\ gate' = "failed"
        /\ UNCHANGED <<break_schedule, now>>
     \/ /\ safety_enabled
        /\ EmergencySample(FALSE)
        /\ due = 0
        /\ ResourceSample(TRUE)
        /\ pc' = "pause_check" /\ gate' = "passed"
        /\ UNCHANGED <<exitReason, break_schedule, now>>
  /\ UNCHANGED <<ctlVars, statVars, emergency_stop, last_break_time,
                 safety_enabled, pointer, breakChecked, dispatched,
                 handlerFailed, raisedAt, sessions, stopVars>>
  /\ UNCHANGED auxVars

\* pause_check that goes on to the cycle without the break check
pause_check_skips_break_check ==
  /\ pc = "pause_check"
  /\ IF paused THEN pc' = "loop_running" /\ IterReset
               ELSE pc' = "update_state" /\ UNCHANGED <<iterVars, raisedAt>>
  /\ UNCHANGED <<ctlVars, statVars, safetyVars, envVars, exitReason, sessions, stopVars>>
  /\ UNCHANGED auxVars

\* `if self.paused: time.sleep(1); continue`
pause_check ==
  /\ pc = "pause_check"
  /\ IF paused THEN pc' = "loop_running" /\ IterReset
               ELSE pc' = "break_check" /\ UNCHANGED <<iterVars, raisedAt>>
  /\ UNCHANGED <<ctlVars, statVars, safetyVars, envVars, exitReason, sessions, stopVars>>
  /\ UNCHANGED auxVars

\* `if self.safety_manager.should_take_break():`
break_check ==
  /\ pc = "break_check"
  /\ breakChecked' = TRUE
  /\ \E interval \in BreakIntervalMin..BreakIntervalMax :
       pc' = IF should_take_break(now, interval) THEN "take_break" ELSE "update_state"
  /\ cyclesAfterStop' = IF ~running /\ pc' = "update_state"
                         THEN cyclesAfterStop + 1 ELSE cyclesAfterStop
  /\ UNCHANGED <<ctlVars, statVars, safetyVars, envVars, exitReason, raisedAt,
                 gate, dispatched, handlerFailed, sessions, stopMidGate>>
  /\ UNCHANGED auxVars

\* MacroController.take_break, SafetyManager.take_break, then `continue`
take_break ==
  /\ pc = "take_break"
  /\ \E slept \in 0..1 : now' = IF now + slept <= MaxTime THEN now + slept ELSE now
  /\ last_break_time' = now'
  /\ session_stats' = [session_stats EXCEPT !.breaks_taken = @ + 1]
  /\ pc' = "loop_running"
  /\ IterReset
  /\ UNCHANGED <<ctlVars, emergency_stop, safety_enabled, break_schedule,
                 pointer, exitReason, sessions, stopVars>>
  /\ UNCHANGED auxVars

\* ------------------------------------------------------ execute_macro_cycle
\* a raised exception leaves the cycle for the `except Exception` of the loop
Raise(where) ==
  /\ pc' = "except"
  /\ raisedAt' = where
  /\ UNCHANGED <<dispatched, handlerFailed, session_stats>>

\* The body of a handle_* method.  Every body is one try block whose except
\* clause only logs: a failure inside it changes no counter.  A body that
\* makes progress adds to its statistics counter, if it has one.
HandlerBody(counter) ==
  \/ handlerFailed' = TRUE /\ UNCHANGED session_stats
  \/ UNCHANGED <<handlerFailed, session_stats>>
  \/ /\ counter # "none"
     /\ session_stats[counter] < MaxStat
     /\ session_stats' = [session_stats EXCEPT ![counter] = @ + 1]
     /\ UNCHANGED handlerFailed

\* `if self.config[cat]['enabled']: self.handle_...()`
Dispatch(cat, counter, next) ==
  /\ pc = cat
  /\ CASE config[cat] = "missing" -> Raise(cat)
       [] config[cat] = "off" ->
            /\ pc' = next
            /\ UNCHANGED <<dispatched, handlerFailed, raisedAt, session_stats>>
       [] config[cat] = "on" ->
            /\ dispatched' = Append(dispatched, cat)
            /\ pc' = next
            /\ HandlerBody(counter)
            /\ UNCHANGED raisedAt
  /\ UNCHANGED <<ctlVars, safetyVars, envVars, exitReason, gate,
                 breakChecked, sessions, stopVars>>
  /\ UNCHANGED auxVars

\* execute_macro_cycle entry: self.game_state.update_state() captures the
\* screen outside any try block
update_state ==
  /\ pc = "update_state"
  /\ \E raises \in BOOLEAN :
       IF raises THEN Raise("update_state")
       ELSE /\ pc' = "quests"
            /\ UNCHANGED <<raisedAt, dispatched, handlerFailed, session_stats>>
  /\ UNCHANGED <<ctlVars, safetyVars, envVars, exitReason, gate,
                 breakChecked, sessions, stopVars>>
  /\ UNCHANGED auxVars

handle_quests == Dispatch("quests", "none", "farming")

handle_farming == Dispatch("farming", "fields_visited", "mobs")

handle_mob_hunting == Dispatch("mobs", "none", "planters")

handle_planters == Dispatch("planters", "none", "boosts")

handle_boosts == Dispatch("boosts", "none", "maintenance")

\* called unconditionally
handle_maintenance ==
  /\ pc = "maintenance"
  /\ dispatched' = Append(dispatched, "maintenance")
  /\ pc' = "update_stats"
  /\ HandlerBody("none")
  /\ UNCHANGED <<ctlVars, safetyVars, envVars, exitReason, raisedAt,
                 gate, breakChecked, sessions, stopVars>>
  /\ UNCHANGED auxVars

\* update_session_stats and the sleep between cycles
update_session_stats ==
  /\ pc = "update_stats"
  /\ pc' = "loop_running"
  /\ IterReset
  /\ UNCHANGED <<ctlVars, statVars, safetyVars, envVars, exitReason, sessions, stopVars>>
  /\ UNCHANGED auxVars

\* `except Exception` of the loop body, lines 164-173
loop_except ==
  /\ pc = "except"
  /\ session_stats' = [session_stats EXCEPT !.errors_encountered = @ + 1]
  /\ IF session_stats'.errors_encountered > ErrorBudget
     THEN LoopExit("errors") /\ UNCHANGED <<iterVars, raisedAt>>
     ELSE pc' = "loop_running" /\ IterReset /\ UNCHANGED exitReason
  /\ UNCHANGED <<ctlVars, safetyVars, envVars, sessions, stopVars>>
  /\ UNCHANGED auxVars

\* MacroController.cleanup: get_session_stats() is written to a new
\* session_stats_<timestamp>.json; when that raises, the error is only logged.
controller_cleanup(saved) ==
  snapshots' = IF saved THEN Append(snapshots, session_stats) ELSE snapshots

\* `finally: self.cleanup()`, then run() returns: what was recorded about
\* its last iteration is dropped
cleanup ==
  /\ pc = "cleanup"
  /\ \E saved \in BOOLEAN :
       /\ controller_cleanup(saved)
       /\ cleanupResult' = IF saved THEN "saved" ELSE "failed"
  /\ pc' = "idle"
  /\ IterReset
  /\ stopMidGate' = FALSE
  /\ cyclesAfterStop' = 0
  /\ UNCHANGED <<ctlVars, statVars, safetyVars, envVars, exitReason,
                 sessions, preflight, appClosed, otherVars>>

\* ------------------------------------------------------ application shell
\* BSSProMacro.cleanup, the finally clause of run_console_mode and
\* run_gui_mode: macro_controller.stop(), then macro_controller.cleanup().
\* The controller thread is a daemon thread and is not joined.
app_cleanup ==
  /\ ~appClosed
  /\ appClosed' = TRUE
  /\ running' = FALSE
  /\ stopMidGate' = IF running THEN pc \in {"loop_safe", "loop_adv", "pause_check", "break_check"}
                               ELSE stopMidGate
  /\ \E saved \in BOOLEAN : controller_cleanup(saved)
  /\ UNCHANGED <<config, paused, statVars, safetyVars, envVars, pc, exitReason,
                 raisedAt, iterVars, sessions, cyclesAfterStop, preflight,
                 cleanupResult, otherVars>>

\* ------------------------------------------- control surface, other threads
GatePcs == {"loop_safe", "loop_adv", "pause_check", "break_check"}

stop ==
  /\ running' = FALSE
  /\ stopMidGate' = IF running THEN pc \in GatePcs ELSE stopMidGate
  /\ UNCHANGED <<config, paused, statVars, safetyVars, envVars, pc, exitReason,
                 raisedAt, iterVars, sessions, cyclesAfterStop>>
  /\ UNCHANGED auxVars

pause ==
  /\ ~paused
  /\ paused' = TRUE
  /\ UNCHANGED <<config, running, statVars, safetyVars, envVars, pc, exitReason,
                 raisedAt, iterVars, sessions, stopVars>>
  /\ UNCHANGED auxVars

resume ==
  /\ paused
  /\ paused' = FALSE
  /\ UNCHANGED <<config, running, statVars, safetyVars, envVars, pc, exitReason,
                 raisedAt, iterVars, sessions, stopVars>>
  /\ UNCHANGED auxVars

\* -------------------------------------------------------------- environment
\* Time is read only by the loop condition and the break check, so it is
\* enough to let it pass while the thread is at the loop head or not running.
Tick ==
  /\ pc \in {"idle", "loop_running"}
  /\ now < MaxTime
  /\ now' = now + 1
  /\ UNCHANGED <<ctlVars, statVars, safetyVars, pointer, pc, exitReason,
                 raisedAt, iterVars, sessions, stopVars>>
  /\ UNCHANGED auxVars

MovePointer ==
  /\ \E p \in Pointers \ {pointer} : pointer' = p
  /\ UNCHANGED <<ctlVars, statVars, safetyVars, now, pc, exitReason,
                 raisedAt, iterVars, sessions, stopVars>>
  /\ UNCHANGED auxVars

Next ==
  \/ run
  \/ pre_flight_checks
  \/ preflight_branch
  \/ while_running
  \/ is_safe_to_continue
  \/ check_safety_conditions
  \/ pause_check
  \/ break_check
  \/ take_break
  \/ update_state
  \/ handle_quests
  \/ handle_farming
  \/ handle_mob_hunting
  \/ handle_planters
  \/ handle_boosts
  \/ handle_maintenance
  \/ update_session_stats
  \/ loop_except
  \/ cleanup
  \/ stop
  \/ pause
  \/ resume
  \/ Tick
  \/ MovePointer

Spec == Init /\ [][Next]_vars

\* the orchestrator inside the application that owns it
NextApp == Next \/ app_cleanup

SpecApp == Init /\ [][NextApp]_vars

\* Sessions the user leaves alone, followed over the whole of
\* session_duration: no stop(), pause() or pointer movement, and the clock
\* runs on, while a session is at its loop head, to the end of the break
\* schedule.
TickSession ==
  /\ pc = "loop_running"
  /\ now < SessionDuration
  /\ now' = now + 1
  /\ UNCHANGED <<ctlVars, statVars, safetyVars, pointer, pc, exitReason,
                 raisedAt, iterVars, sessions, stopVars, auxVars>>

NextBreaks ==
  \/ run
  \/ pre_flight_checks
  \/ preflight_branch
  \/ while_running
  \/ is_safe_to_continue
  \/ check_safety_conditions
  \/ pause_check
  \/ break_check
  \/ take_break
  \/ update_state
  \/ handle_quests
  \/ handle_farming
  \/ handle_mob_hunting
  \/ handle_planters
  \/ handle_boosts
  \/ handle_maintenance
  \/ update_session_stats
  \/ loop_except
  \/ cleanup
  \/ TickSession

SpecBreaks == Init /\ [][NextBreaks]_vars

\* ------------------------------------------------------------------ MacroGUI
\* The presentation layer of src/gui_interface.py driving one controller.
\* Every click of Start creates a thread that executes MacroController.run();
\* the threads are followed at the grain of one macro cycle per step.
orchRest == <<config, statVars, safetyVars, envVars, pc, exitReason, raisedAt,
              iterVars, sessions, stopVars, preflight, persistVars>>

\* start_macro: the Start button's command
start_macro ==
  /\ gui_buttons = "stopped"
  /\ ~gui_running
  /\ \E th \in GuiThreads :
       /\ thread_pc[th] = "new"
       /\ \A other \in GuiThreads : other < th => thread_pc[other] # "new"
       /\ thread_pc' = [thread_pc EXCEPT ![th] = "run"]
  /\ gui_running' = TRUE
  /\ gui_buttons' = "running"
  /\ UNCHANGED <<running, paused, after_queue, orchRest, funVars>>

\* pause_macro: the Pause button's command
pause_macro ==
  /\ gui_buttons = "running"
  /\ IF gui_running THEN paused' = ~paused ELSE UNCHANGED paused
  /\ UNCHANGED <<running, guiVars, orchRest, funVars>>

\* the body of stop_macro
StopMacroBody ==
  IF gui_running
  THEN /\ gui_running' = FALSE
       /\ running' = FALSE
       /\ gui_buttons' = "stopped"
  ELSE UNCHANGED <<gui_running, running, gui_buttons>>

\* stop_macro: the Stop button's command
stop_macro ==
  /\ gui_buttons = "running"
  /\ StopMacroBody
  /\ UNCHANGED <<paused, thread_pc, after_queue, orchRest, funVars>>

\* stop_macro run by the Tk main loop for `self.root.after(0, self.stop_macro)`
after_stop_macro ==
  /\ after_queue > 0
  /\ after_queue' = after_queue - 1
  /\ StopMacroBody
  /\ UNCHANGED <<paused, thread_pc, orchRest, funVars>>

\* run_macro_thread: self.macro_controller.run(self.config) up to the loop
thread_run(th) ==
  /\ thread_pc[th] = "run"
  /\ running' = TRUE
  /\ paused' = FALSE
  /\ \E r \in PreFlightSamples :
       thread_pc' = [thread_pc EXCEPT ![th] =
                       IF PreFlightVerdict(r) = "pass" THEN "while" ELSE "finally"]
  /\ UNCHANGED <<gui_running, gui_buttons, after_queue, orchRest, funVars>>

\* one evaluation of the while condition and of the pause check
thread_while(th) ==
  /\ thread_pc[th] = "while"
  /\ \E gateOk \in BOOLEAN :
       thread_pc' = [thread_pc EXCEPT ![th] =
                       IF ~running \/ ~gateOk THEN "finally"
                       ELSE IF paused THEN "while"
                       ELSE "cycle"]
  /\ thread_pc' # thread_pc
  /\ UNCHANGED <<running, paused, gui_running, gui_buttons, after_queue,
                 orchRest, funVars>>

\* execute_macro_cycle: the handlers of one cycle
thread_execute_macro_cycle(th) ==
  /\ thread_pc[th] = "cycle"
  /\ thread_pc' = [thread_pc EXCEPT ![th] = "while"]
  /\ UNCHANGED <<running, paused, gui_running, gui_buttons, after_queue,
                 orchRest, funVars>>

\* run() has returned; the finally clause of run_macro_thread
run_macro_thread_finally(th) ==
  /\ thread_pc[th] = "finally"
  /\ thread_pc' = [thread_pc EXCEPT ![th] = "done"]
  /\ gui_running' = FALSE
  /\ after_queue' = after_queue + 1
  /\ UNCHANGED <<running, paused, gui_buttons, orchRest, funVars>>

NextGui ==
  \/ start_macro
  \/ pause_macro
  \/ stop_macro
  \/ after_stop_macro
  \/ \E th \in GuiThreads : thread_run(th)
  \/ \E th \in GuiThreads : thread_while(th)
  \/ \E th \in GuiThreads : thread_execute_macro_cycle(th)
  \/ \E th \in GuiThreads : run_macro_thread_finally(th)

SpecGui == Init /\ [][NextGui]_vars

\* ------------------------------------------------ generate_break_schedule
\* The generation of the schedule, entry by entry.  Times are offsets from
\* current_time in units of session_duration / (break_count * UniformSteps):
\* slot i (0-based) of the partition runs from i * UniformSteps to
\* (i + 1) * UniformSteps, and session_duration is
\* break_count * UniformSteps.
InitSchedule ==
  /\ InitOrchestrator /\ config = FullConfig /\ safety_enabled
  /\ InitGui
  /\ BoostIdle
  /\ PlanterIdle
  /\ LedgerIdle
  /\ MonitorIdle
  /\ InputIdle
  /\ TrigIdle
  /\ SchedIdle
  /\ ResIdle /\ CornerIdle /\ DocIdle /\ CfgIdle /\ JournalIdle /\ RndIdle

schedRest == <<config, running, paused, statVars, safetyVars, envVars, pc,
               exitReason, raisedAt, iterVars, sessions, stopVars, preflight,
               persistVars, guiVars, trigVars, resVars, cornerVars, docVars,
               cfgVars, journalVars, rndVars,
             inputVars,
             monitorVars,
             ledgerVars,
             planterVars,
             boostVars>>

\* break_count = random.randint(3, 8)
randint_break_count ==
  /\ sched_count = 0
  /\ sched_count' \in BreakCountMin..BreakCountMax
  /\ UNCHANGED <<sched_out, schedRest>>

\* an iteration that draws every entry from the first slot
generate_break_schedule_step_first_slot ==
  /\ sched_count > 0
  /\ Len(sched_out) < sched_count
  /\ \E k \in 0..UniformSteps :
       sched_out' = Append(sched_out, [time |-> k, taken |-> FALSE])
  /\ UNCHANGED <<sched_count, schedRest>>

\* one iteration of `for i in range(break_count)`: random.uniform(a, b)
\* returns a + (b - a) * random(), which lies between a and b and can be
\* either of them
generate_break_schedule_step ==
  /\ sched_count > 0
  /\ Len(sched_out) < sched_count
  /\ \E k \in 0..UniformSteps :
       sched_out' = Append(sched_out,
                           [time |-> Len(sched_out) * UniformSteps + k,
                            taken |-> FALSE])
  /\ UNCHANGED <<sched_count, schedRest>>

NextSchedule ==
  \/ randint_break_count
  \/ generate_break_schedule_step

SpecSchedule == InitSchedule /\ [][NextSchedule]_vars

\* ------------------------------------------------ check_emergency_triggers
\* One evaluation of the emergency triggers, trigger by trigger, and one
\* call of SafetyManager.is_safe_to_continue, against one state of the
\* pointer, the keyboard, the process list, the resource readings and the
\* clock.  emergency_triggers is a public list of dictionaries whose active
\* flags the evaluation reads each time; the flags are drawn here.
TriggerLists ==
  { [i \in 1..Len(setup_emergency_triggers) |->
       [setup_emergency_triggers[i] EXCEPT !.active = armed[i]]] :
    armed \in [1..Len(setup_emergency_triggers) -> BOOLEAN] }

\* the primitives that run inside try/except: an exception of theirs is
\* answered with `return False`
GuardedPrimitives == {"mouse_corner", "key_combo", "process_monitor", "system_resource"}

\* t is the clock at the evaluation and started the clock at which the
\* run() of the session was entered, both counted from the construction of
\* the manager; broken are the primitives whose platform call raises
TriggerEnvs ==
  { [ptr |-> ptr, keys |-> keys, proc |-> proc, cpu |-> load[1], mem |-> load[2],
     t |-> clock[1], started |-> clock[2], broken |-> broken] :
    ptr \in Pointers, keys \in BOOLEAN, proc \in BOOLEAN,
    load \in {<<50, 50>>, <<95, 50>>, <<50, 97>>},
    clock \in {<<0, 0>>, <<TimeLimit, 0>>, <<TimeLimit, 1>>},
    broken \in {{}, GuardedPrimitives} \cup {{ty} : ty \in GuardedPrimitives} }

InitTriggers ==
  /\ InitOrchestrator /\ config = FullConfig /\ safety_enabled
  /\ InitGui
  /\ BoostIdle
  /\ PlanterIdle
  /\ LedgerIdle
  /\ MonitorIdle
  /\ InputIdle
  /\ SchedIdle
  /\ ResIdle /\ CornerIdle /\ DocIdle /\ CfgIdle /\ JournalIdle /\ RndIdle
  /\ trig_list \in TriggerLists
  /\ \E e \in TriggerEnvs : trig_env = <<e>>
  /\ trig_i = 1
  /\ trig_evaluated = <<>>
  /\ trig_result = "pending"
  /\ safe_result = "pending"

trigRest == <<config, running, paused, statVars, last_break_time,
              safety_enabled, break_schedule, envVars, pc, exitReason,
              raisedAt, iterVars, sessions, stopVars, preflight, persistVars,
              guiVars, schedVars, resVars, cornerVars, docVars, cfgVars,
              journalVars, rndVars,
             inputVars,
             monitorVars,
             ledgerVars,
             planterVars,
             boostVars>>

\* a primitive that reports its condition although its platform call raised
Fires_without_except(trigger) ==
  TriggerFires(trigger, trig_env[1].ptr, trig_env[1].keys, trig_env[1].proc,
               trig_env[1].cpu, trig_env[1].mem, trig_env[1].t)

\* what the primitive of the trigger returns: False from its except clause
\* when the platform call raises
Fires(trigger) ==
  /\ trigger.type \notin trig_env[1].broken
  /\ TriggerFires(trigger, trig_env[1].ptr, trig_env[1].keys, trig_env[1].proc,
                  trig_env[1].cpu, trig_env[1].mem, trig_env[1].t)

\* an iteration that goes on to the next trigger after one has fired
check_emergency_triggers_step_goes_on ==
  /\ trig_result = "pending"
  /\ trig_i <= Len(trig_list)
  /\ IF ~trig_list[trig_i].active
     THEN UNCHANGED trig_evaluated
     ELSE trig_evaluated' = Append(trig_evaluated, trig_list[trig_i].type)
  /\ trig_i' = trig_i + 1
  /\ UNCHANGED <<trig_list, trig_env, trig_result, safe_result, emergency_stop, trigRest>>

\* one iteration of `for trigger in self.emergency_triggers`
check_emergency_triggers_step ==
  /\ trig_result = "pending"
  /\ trig_i <= Len(trig_list)
  /\ IF ~trig_list[trig_i].active
     THEN /\ trig_i' = trig_i + 1
          /\ UNCHANGED <<trig_evaluated, trig_result>>
     ELSE /\ trig_evaluated' = Append(trig_evaluated, trig_list[trig_i].type)
          /\ IF Fires(trig_list[trig_i])
             THEN trig_result' = trig_list[trig_i].type /\ UNCHANGED trig_i
             ELSE trig_i' = trig_i + 1 /\ UNCHANGED trig_result
  /\ UNCHANGED <<trig_list, trig_env, safe_result, emergency_stop, trigRest>>

\* the `return False` after the loop
check_emergency_triggers_return ==
  /\ trig_result = "pending"
  /\ trig_i > Len(trig_list)
  /\ trig_result' = "none"
  /\ UNCHANGED <<trig_list, trig_env, trig_i, trig_evaluated, safe_result,
                 emergency_stop, trigRest>>

\* SafetyManager.is_safe_to_continue with check_emergency_conditions:
\* pause_requested is never set; the position and the key combination are
\* read whatever the flags of emergency_triggers are
safety_manager_is_safe_to_continue ==
  /\ safe_result = "pending"
  /\ IF emergency_stop
     THEN safe_result' = "unsafe" /\ UNCHANGED emergency_stop
     ELSE IF trig_env[1].ptr = "origin" \/ trig_env[1].keys
     THEN safe_result' = "unsafe" /\ emergency_stop' = TRUE
     ELSE safe_result' = "safe" /\ UNCHANGED emergency_stop
  /\ UNCHANGED <<trig_list, trig_env, trig_i, trig_evaluated, trig_result, trigRest>>

NextTriggers ==
  \/ check_emergency_triggers_step
  \/ check_emergency_triggers_return
  \/ safety_manager_is_safe_to_continue

SpecTriggers == InitTriggers /\ [][NextTriggers]_vars

\* ------------------------------------------------ the resource readings
\* One call of check_safety_conditions with safety enabled, a quiet pointer
\* and keyboard, no hostile process and no break due, followed through its
\* two readings of psutil: the one of the system_resource trigger and the
\* one of check_system_resources.
CpuSamples == {50, 85, 86, 90, 91}
MemSamples == {50, 90, 91, 95, 96}
DiskSamples == {50, 95, 96}

InitResources ==
  /\ InitOrchestrator /\ config = FullConfig /\ safety_enabled
  /\ InitGui
  /\ BoostIdle
  /\ PlanterIdle
  /\ LedgerIdle
  /\ MonitorIdle
  /\ InputIdle
  /\ TrigIdle /\ SchedIdle /\ CornerIdle /\ DocIdle /\ CfgIdle /\ JournalIdle /\ RndIdle
  /\ res_pc = "triggers"
  /\ res_samples = <<>>
  /\ res_verdict = "pending"

resRest == <<config, running, paused, statVars, safetyVars, envVars, pc,
             exitReason, raisedAt, iterVars, sessions, stopVars, preflight,
             persistVars, guiVars, trigVars, schedVars, cornerVars, docVars,
             cfgVars, journalVars, rndVars,
             inputVars,
             monitorVars,
             ledgerVars,
             planterVars,
             boostVars>>

\* `if self.check_emergency_triggers(): return False`, of which the
\* system_resource trigger reads cpu_percent and virtual_memory
res_check_emergency_triggers ==
  /\ res_pc = "triggers"
  /\ \E cpu \in CpuSamples, mem \in MemSamples, raised \in BOOLEAN :
       /\ res_samples' = Append(res_samples,
                                [cpu |-> cpu, mem |-> mem, disk |-> 0, raised |-> raised])
       /\ IF ~raised /\ check_system_resource_trigger(cpu, mem)
          THEN res_verdict' = "halt_emergency" /\ res_pc' = "done"
          ELSE res_pc' = "resources" /\ UNCHANGED res_verdict
  /\ UNCHANGED resRest

\* `if not self.check_system_resources(): return False`, and the
\* `return True` that follows check_activity_patterns
res_check_system_resources ==
  /\ res_pc = "resources"
  /\ \E cpu \in CpuSamples, mem \in MemSamples, disk \in DiskSamples, raised \in BOOLEAN :
       /\ res_samples' = Append(res_samples,
                                [cpu |-> cpu, mem |-> mem, disk |-> disk, raised |-> raised])
       /\ res_verdict' = IF raised \/ check_system_resources(cpu, mem, disk)
                         THEN "continue" ELSE "halt_resources"
  /\ res_pc' = "done"
  /\ UNCHANGED resRest

NextResources ==
  \/ res_check_emergency_triggers
  \/ res_check_system_resources

SpecResources == InitResources /\ [][NextResources]_vars

\* ---------------------------------------------- check_mouse_corner_trigger
\* One call of check_mouse_corner_trigger against one pointer position and
\* one screen size, as pyautogui.position() and pyautogui.size() report them.
Abs(n) == IF n < 0 THEN -n ELSE n

Screens == {<<1920, 1080>>, <<1280, 720>>}

\* coordinates near the two edges of an axis of the given length, and its middle
AxisPoints(length) ==
  {-d : d \in 0..MaxOffset} \cup {d : d \in 0..MaxOffset}
    \cup {length - 1 - d : d \in 0..MaxOffset} \cup {length \div 2}

corners(screen_width, screen_height) ==
  << <<0, 0>>, <<screen_width - 1, 0>>, <<0, screen_height - 1>>,
     <<screen_width - 1, screen_height - 1>> >>

\* the loop over the corners with the top-left corner only
mouse_in_corner_top_left_only(x, y, screen_width, screen_height) ==
  Abs(x - 0) <= CornerThreshold /\ Abs(y - 0) <= CornerThreshold

\* `for corner_x, corner_y in corners: if abs(x - corner_x) <= corner_threshold
\*  and abs(y - corner_y) <= corner_threshold: return True`, else False
mouse_in_corner(x, y, screen_width, screen_height) ==
  \E i \in 1..4 :
     /\ Abs(x - corners(screen_width, screen_height)[i][1]) <= CornerThreshold
     /\ Abs(y - corners(screen_width, screen_height)[i][2]) <= CornerThreshold

InitCorner ==
  /\ InitOrchestrator /\ config = FullConfig /\ safety_enabled
  /\ InitGui
  /\ BoostIdle
  /\ PlanterIdle
  /\ LedgerIdle
  /\ MonitorIdle
  /\ InputIdle
  /\ TrigIdle /\ SchedIdle /\ ResIdle /\ DocIdle /\ CfgIdle /\ JournalIdle /\ RndIdle
  /\ \E screen \in Screens :
       \E x \in AxisPoints(screen[1]), y \in AxisPoints(screen[2]) :
          corner_in = <<[x |-> x, y |-> y, w |-> screen[1], h |-> screen[2]]>>
  /\ corner_out = "pending"

cornerRest == <<config, running, paused, statVars, safetyVars, envVars, pc,
                exitReason, raisedAt, iterVars, sessions, stopVars, preflight,
                persistVars, guiVars, trigVars, schedVars, resVars, docVars,
                cfgVars, journalVars, rndVars,
             inputVars,
             monitorVars,
             ledgerVars,
             planterVars,
             boostVars>>

check_mouse_corner_trigger_call ==
  /\ corner_out = "pending"
  /\ corner_out' = IF mouse_in_corner(corner_in[1].x, corner_in[1].y,
                                      corner_in[1].w, corner_in[1].h)
                   THEN "fires" ELSE "quiet"
  /\ UNCHANGED <<corner_in, cornerRest>>

NextCorner == check_mouse_corner_trigger_call

SpecCorner == InitCorner /\ [][NextCorner]_vars

\* ------------------------------------------------ who reads which document
\* Every json.load makes a new document.  Document 0 is the one
\* MacroController.load_config returned to __init__, which handed it to
\* every component it constructed; document 1 is the one BSSProMacro loaded
\* and handed to MacroGUI; MacroGUI.load_config loads further ones.
Components == {"orchestrator", "input_auto", "safety_manager", "advanced_safety",
               "field_manager", "mob_manager"}
Holders == Components \cup {"gui"}

InitReconfigure ==
  /\ InitOrchestrator /\ config = FullConfig /\ safety_enabled
  /\ InitGui
  /\ BoostIdle
  /\ PlanterIdle
  /\ LedgerIdle
  /\ MonitorIdle
  /\ InputIdle
  /\ TrigIdle /\ SchedIdle /\ ResIdle /\ CornerIdle /\ CfgIdle /\ JournalIdle /\ RndIdle
  /\ doc_held = [h \in Holders |-> IF h = "gui" THEN 1 ELSE 0]
  /\ doc_read = [c \in Components |-> -1]

docRest == <<config, running, paused, statVars, safetyVars, envVars, pc,
             exitReason, raisedAt, iterVars, sessions, stopVars, preflight,
             persistVars, guiVars, trigVars, schedVars, resVars, cornerVars,
             cfgVars, journalVars, rndVars,
             inputVars,
             monitorVars,
             ledgerVars,
             planterVars,
             boostVars>>

\* MacroGUI.load_config: self.config = json.load(f)
gui_load_config ==
  /\ doc_held["gui"] < MaxDocs
  /\ doc_held' = [doc_held EXCEPT !["gui"] = doc_held["gui"] + 1]
  /\ UNCHANGED <<doc_read, docRest>>

\* run_macro_thread: self.macro_controller.run(self.config), of which
\* `if config: self.config = config`; what was read before is forgotten
run_with_config ==
  /\ doc_held' = [doc_held EXCEPT !["orchestrator"] = doc_held["gui"]]
  /\ doc_read' = [c \in Components |-> -1]
  /\ UNCHANGED docRest

\* a component evaluates self.config[...]
component_reads(c) ==
  /\ doc_read' = [doc_read EXCEPT ![c] = doc_held[c]]
  /\ UNCHANGED <<doc_held, docRest>>

NextReconfigure ==
  \/ gui_load_config
  \/ run_with_config
  \/ \E c \in Components : component_reads(c)

SpecReconfigure == InitReconfigure /\ [][NextReconfigure]_vars

\* ------------------------------------------------ MacroController.__init__
\* The construction of the controller from what is found under the name of
\* the configuration file.  Of a document only what the constructors read is
\* kept: its sections, general.safety_enabled, and whether its safety
\* section has break_duration_min and break_duration_max.
Sections == {"general", "farming", "quests", "mobs", "planters", "boosts",
             "hive", "dispensers", "safety", "hotkeys"}

get_default_config ==
  [sections |-> {"general", "farming", "quests", "mobs", "safety"},
   safety_enabled |-> TRUE,
   durations |-> FALSE]

\* documents that parse: complete, or with one section left out
Documents ==
  [sections : {Sections} \cup {Sections \ {sec} : sec \in Sections},
   safety_enabled : BOOLEAN,
   durations : BOOLEAN]

InitConstruct ==
  /\ InitOrchestrator /\ config = FullConfig /\ safety_enabled
  /\ InitGui
  /\ BoostIdle
  /\ PlanterIdle
  /\ LedgerIdle
  /\ MonitorIdle
  /\ InputIdle
  /\ TrigIdle /\ SchedIdle /\ ResIdle /\ CornerIdle /\ DocIdle /\ JournalIdle /\ RndIdle
  /\ cfg_file \in {[kind |-> k, content |-> <<>>] : k \in {"missing", "malformed"}}
                   \cup {[kind |-> "document", content |-> <<d>>] : d \in Documents}
  /\ cfg_doc = <<>>
  /\ construct_pc = "load_config"

cfgRest == <<config, running, paused, statVars, safetyVars, envVars, pc,
             exitReason, raisedAt, iterVars, sessions, stopVars, preflight,
             persistVars, guiVars, trigVars, schedVars, resVars, cornerVars,
             docVars, journalVars, rndVars,
             inputVars,
             monitorVars,
             ledgerVars,
             planterVars,
             boostVars>>

\* load_config: the document of the file, or get_default_config() when
\* open() or json.load raises; then the constructors that only store it
load_config ==
  /\ construct_pc = "load_config"
  /\ cfg_doc' = IF cfg_file.kind \in {"missing", "malformed"}
                THEN <<get_default_config>> ELSE cfg_file.content
  /\ construct_pc' = "advanced_safety"
  /\ UNCHANGED <<cfg_file, cfgRest>>

\* AdvancedSafetyManager.__init__ up to initialize_safety_systems:
\* config['general']['safety_enabled'] and, in BehaviorRandomizer,
\* config['general']['randomization_enabled']
construct_advanced_safety ==
  /\ construct_pc = "advanced_safety"
  /\ construct_pc' = IF "general" \notin cfg_doc[1].sections THEN "raised"
                     ELSE IF cfg_doc[1].safety_enabled THEN "generate_break_schedule"
                     ELSE "task_managers"
  /\ UNCHANGED <<cfg_file, cfg_doc, cfgRest>>

\* generate_break_schedule: every entry reads
\* config['safety']['break_duration_min'] and ['break_duration_max']
construct_generate_break_schedule ==
  /\ construct_pc = "generate_break_schedule"
  /\ construct_pc' = IF "safety" \in cfg_doc[1].sections /\ cfg_doc[1].durations
                     THEN "task_managers" ELSE "raised"
  /\ UNCHANGED <<cfg_file, cfg_doc, cfgRest>>

\* the constructors of the task managers store the document; __init__ returns
construct_task_managers ==
  /\ construct_pc = "task_managers"
  /\ construct_pc' = "done"
  /\ UNCHANGED <<cfg_file, cfg_doc, cfgRest>>

NextConstruct ==
  \/ load_config
  \/ construct_advanced_safety
  \/ construct_generate_break_schedule
  \/ construct_task_managers

SpecConstruct == InitConstruct /\ [][NextConstruct]_vars

\* ----------------------------------------------------------- PatternBreaker
\* The journal of actions: record_action, should_break_pattern and the
\* passing of time between them.
ActionIds == {"collect", "convert"}

journalRest == <<config, running, paused, statVars, safetyVars, envVars, pc,
                 exitReason, raisedAt, iterVars, sessions, stopVars, preflight,
                 persistVars, guiVars, trigVars, schedVars, resVars, cornerVars,
                 docVars, cfgVars, rndVars,
             inputVars,
             monitorVars,
             ledgerVars,
             planterVars,
             boostVars>>

InitJournal ==
  /\ InitOrchestrator /\ config = FullConfig /\ safety_enabled
  /\ InitGui
  /\ BoostIdle
  /\ PlanterIdle
  /\ LedgerIdle
  /\ MonitorIdle
  /\ InputIdle
  /\ TrigIdle /\ SchedIdle /\ ResIdle /\ CornerIdle /\ DocIdle /\ CfgIdle /\ RndIdle
  /\ JournalIdle

journal_tick ==
  /\ journal_now < MaxJournalTime
  /\ journal_now' = journal_now + 1
  /\ UNCHANGED <<action_history, break_pattern, journalRest>>

\* record_action that keeps every entry
record_action_keeps_all(action) ==
  /\ Len(action_history) < MaxJournalLen
  /\ action_history' = Append(action_history,
                              [action |-> action, timestamp |-> journal_now])
  /\ break_pattern' = "pending"
  /\ UNCHANGED <<journal_now, journalRest>>

\* record_action: the entry is stamped with one reading of time.time() and
\* the cutoff is computed from a second one, at which the clock may have
\* moved on; entries with timestamp > cutoff_time are kept, in their order
record_action(action) ==
  /\ Len(action_history) < MaxJournalLen
  /\ \E later \in {journal_now, Min(journal_now + 1, MaxJournalTime)} :
       LET appended == Append(action_history,
                              [action |-> action, timestamp |-> journal_now])
           cutoff_time == later - RetentionWindow
       IN /\ action_history' =
               SelectSeq(appended, LAMBDA a : a.timestamp > cutoff_time)
          /\ journal_now' = later
  /\ break_pattern' = "pending"
  /\ UNCHANGED journalRest

\* should_break_pattern without `if len(self.action_history) < self.pattern_threshold`
should_break_pattern_without_length_check(history) ==
  LET n == Min(Len(history), PatternThreshold)
      recent_actions == [i \in 1..n |-> history[Len(history) - n + i].action]
  IN Cardinality({recent_actions[i] : i \in 1..n}) = 1

\* should_break_pattern: False below pattern_threshold entries, else
\* len(set(recent_actions)) == 1 for the last pattern_threshold entries
should_break_pattern(history) ==
  IF Len(history) < PatternThreshold THEN FALSE
  ELSE LET recent_actions ==
             [i \in 1..PatternThreshold |->
                history[Len(history) - PatternThreshold + i].action]
       IN Cardinality({recent_actions[i] : i \in 1..PatternThreshold}) = 1

should_break_pattern_call ==
  /\ break_pattern = "pending"
  /\ break_pattern' = IF should_break_pattern(action_history) THEN "true" ELSE "false"
  /\ UNCHANGED <<action_history, journal_now, journalRest>>

NextJournal ==
  \/ journal_tick
  \/ \E action \in ActionIds : record_action(action)
  \/ should_break_pattern_call

SpecJournal == InitJournal /\ [][NextJournal]_vars

\* ------------------------------------- BehaviorRandomizer, InputAutomation
\* Durations are in hundredths of a second, the three randomization
\* magnitudes of the document in tenths, positions in pixels.  A call of
\* random.uniform is a choice over the values of its interval on that grid.
RndConfigs ==
  [randomization_enabled : BOOLEAN,
   click_randomization : 0..MaxVariance,
   movement_randomization : 0..MaxVariance,
   pause_randomization : 0..MaxVariance]

Durations == {10, 50}
Positions == {<<0, 0>>, <<960, 540>>}

rndRest == <<config, running, paused, statVars, safetyVars, envVars, pc,
             exitReason, raisedAt, iterVars, sessions, stopVars, preflight,
             persistVars, guiVars, trigVars, schedVars, resVars, cornerVars,
             docVars, cfgVars, journalVars,
             inputVars,
             monitorVars,
             ledgerVars,
             planterVars,
             boostVars>>

InitRandom ==
  /\ InitOrchestrator /\ config = FullConfig /\ safety_enabled
  /\ InitGui
  /\ BoostIdle
  /\ PlanterIdle
  /\ LedgerIdle
  /\ MonitorIdle
  /\ InputIdle
  /\ TrigIdle /\ SchedIdle /\ ResIdle /\ CornerIdle /\ DocIdle /\ CfgIdle
  /\ JournalIdle
  /\ \E c \in RndConfigs : rnd_cfg = <<c>>
  /\ rnd_call = <<>>

\* base * random.uniform(1 - variance, 1 + variance)
Scaled(base, variance) ==
  ((base * (10 - variance)) \div 10)..((base * (10 + variance)) \div 10)

\* BehaviorRandomizer.randomize_timing: the values it can return
randomize_timing(base_time) ==
  IF ~rnd_cfg[1].randomization_enabled THEN {base_time}
  ELSE Scaled(base_time, rnd_cfg[1].pause_randomization)

\* randomize_position without `if not self.randomization_enabled`
randomize_position_without_flag(x, y) ==
  LET variance == rnd_cfg[1].click_randomization
  IN ((x - variance)..(x + variance)) \X ((y - variance)..(y + variance))

\* BehaviorRandomizer.randomize_position: variance is click_randomization * 10
\* pixels, the results are int(x + uniform), int(y + uniform)
randomize_position(x, y) ==
  IF ~rnd_cfg[1].randomization_enabled THEN {<<x, y>>}
  ELSE LET variance == rnd_cfg[1].click_randomization
       IN ((x - variance)..(x + variance)) \X ((y - variance)..(y + variance))

\* BehaviorRandomizer.randomize_movement
randomize_movement(duration) ==
  IF ~rnd_cfg[1].randomization_enabled THEN {duration}
  ELSE Scaled(duration, rnd_cfg[1].movement_randomization)

\* BehaviorRandomizer.should_take_micro_break: random.random() < 0.05
should_take_micro_break ==
  IF ~rnd_cfg[1].randomization_enabled THEN {FALSE} ELSE BOOLEAN

randomize_timing_call ==
  /\ \E base_time \in Durations : \E r \in randomize_timing(base_time) :
       rnd_call' = <<[fn |-> "randomize_timing", given |-> <<base_time>>,
                      landed |-> <<r>>]>>
  /\ UNCHANGED <<rnd_cfg, rndRest>>

randomize_position_call ==
  /\ \E p \in Positions : \E r \in randomize_position(p[1], p[2]) :
       rnd_call' = <<[fn |-> "randomize_position", given |-> p,
                      landed |-> r]>>
  /\ UNCHANGED <<rnd_cfg, rndRest>>

randomize_movement_call ==
  /\ \E duration \in Durations : \E r \in randomize_movement(duration) :
       rnd_call' = <<[fn |-> "randomize_movement", given |-> <<duration>>,
                      landed |-> <<r>>]>>
  /\ UNCHANGED <<rnd_cfg, rndRest>>

should_take_micro_break_call ==
  /\ \E r \in should_take_micro_break :
       rnd_call' = <<[fn |-> "should_take_micro_break", given |-> <<>>,
                      landed |-> <<r>>]>>
  /\ UNCHANGED <<rnd_cfg, rndRest>>

\* InputAutomation.safe_click: the position pyautogui.click is called with;
\* nothing is clicked when _is_safe_to_act() is False
safe_click(x, y) ==
  LET variance == rnd_cfg[1].click_randomization
  IN IF variance > 0
     THEN ((x - variance)..(x + variance)) \X ((y - variance)..(y + variance))
     ELSE {<<x, y>>}

safe_click_call ==
  /\ \E p \in Positions :
       \E r \in safe_click(p[1], p[2]) \cup {<<>>} :
         rnd_call' = <<[fn |-> "safe_click", given |-> p, landed |-> r]>>
  /\ UNCHANGED <<rnd_cfg, rndRest>>

\* InputAutomation.safe_key_press with a hold_time: the time the key is held,
\* time.sleep(hold_time + random.uniform(-0.1, 0.1))
safe_key_press(hold_time) == {<<h>> : h \in (hold_time - 10)..(hold_time + 10)}

safe_key_press_call ==
  /\ \E hold_time \in Durations :
       \E r \in safe_key_press(hold_time) \cup {<<>>} :
         rnd_call' = <<[fn |-> "safe_key_press", given |-> <<hold_time>>,
                        landed |-> r]>>
  /\ UNCHANGED <<rnd_cfg, rndRest>>

Max(a, b) == IF a > b THEN a ELSE b

\* InputAutomation.move_mouse_smooth: the duration pyautogui.moveTo is
\* called with
move_mouse_smooth(duration) ==
  LET rand_factor == rnd_cfg[1].movement_randomization
  IN IF rand_factor > 0
     THEN {<<Max(10, d)>> : d \in Scaled(duration, rand_factor)}
     ELSE {<<duration>>}

move_mouse_smooth_call ==
  /\ \E duration \in Durations :
       \E r \in move_mouse_smooth(duration) \cup {<<>>} :
         rnd_call' = <<[fn |-> "move_mouse_smooth", given |-> <<duration>>,
                        landed |-> r]>>
  /\ UNCHANGED <<rnd_cfg, rndRest>>

NextRandom ==
  \/ randomize_timing_call
  \/ randomize_position_call
  \/ randomize_movement_call
  \/ should_take_micro_break_call
  \/ safe_click_call
  \/ safe_key_press_call
  \/ move_mouse_smooth_call

SpecRandom == InitRandom /\ [][NextRandom]_vars

\* ---------------------------------------------- InputAutomation._is_safe_to_act
\* Every safe_* function begins with _is_safe_to_act.  MacroController builds
\* one InputAutomation; each macro thread MacroGUI.start_macro creates calls it
\* through the same controller, and a thread of an earlier Start can still be
\* inside its cycle when the next one begins.
InputThreads == 1..MaxInputThreads

inputRest == <<config, running, paused, statVars, safetyVars, envVars, pc,
               exitReason, raisedAt, iterVars, sessions, stopVars, preflight,
               persistVars, guiVars, trigVars, schedVars, resVars, cornerVars,
               docVars, cfgVars, journalVars, rndVars,
             monitorVars,
             ledgerVars,
             planterVars,
             boostVars>>

\* time.time() is far above 0, the initial last_action_time
InitInput ==
  /\ InitOrchestrator /\ config = FullConfig /\ safety_enabled
  /\ InitGui
  /\ BoostIdle
  /\ PlanterIdle
  /\ LedgerIdle
  /\ MonitorIdle
  /\ TrigIdle /\ SchedIdle /\ ResIdle /\ CornerIdle /\ DocIdle /\ CfgIdle
  /\ JournalIdle /\ RndIdle
  /\ in_now = ActionDelayBase
  /\ last_action_time = 0
  /\ in_pc = [t \in InputThreads |-> "idle"]
  /\ in_wake = [t \in InputThreads |-> 0]
  /\ admitted = <<>>

input_tick ==
  /\ in_now < MaxInputTime
  /\ in_now' = in_now + 1
  /\ UNCHANGED <<last_action_time, in_pc, in_wake, admitted, inputRest>>

\* a safe_* function is called
input_call(t) ==
  /\ in_pc[t] = "idle"
  /\ Len(admitted) < MaxActions
  /\ in_pc' = [in_pc EXCEPT ![t] = "called"]
  /\ UNCHANGED <<in_now, last_action_time, in_wake, admitted, inputRest>>

\* the active window is not Roblox: return False, nothing is done
is_safe_to_act_refuses(t) ==
  /\ in_pc[t] = "called"
  /\ in_pc' = [in_pc EXCEPT ![t] = "idle"]
  /\ UNCHANGED <<in_now, last_action_time, in_wake, admitted, inputRest>>

\* current_time = time.time(); the comparison with last_action_time and the
\* length of the sleep it decides
is_safe_to_act_read(t) ==
  /\ in_pc[t] = "called"
  /\ IF in_now - last_action_time < ActionDelayBase
     THEN /\ in_pc' = [in_pc EXCEPT ![t] = "sleeping"]
          /\ in_wake' = [in_wake EXCEPT ![t] =
                           in_now + (ActionDelayBase - (in_now - last_action_time))]
     ELSE /\ in_pc' = [in_pc EXCEPT ![t] = "admit"]
          /\ UNCHANGED in_wake
  /\ UNCHANGED <<in_now, last_action_time, admitted, inputRest>>

\* time.sleep returns, not before the time asked for
is_safe_to_act_wake(t) ==
  /\ in_pc[t] = "sleeping"
  /\ in_now >= in_wake[t]
  /\ in_pc' = [in_pc EXCEPT ![t] = "admit"]
  /\ UNCHANGED <<in_now, last_action_time, in_wake, admitted, inputRest>>

\* self.last_action_time = time.time(); return True: the action goes ahead
is_safe_to_act_admit(t) ==
  /\ in_pc[t] = "admit"
  /\ last_action_time' = in_now
  /\ admitted' = Append(admitted, in_now)
  /\ in_pc' = [in_pc EXCEPT ![t] = "idle"]
  /\ UNCHANGED <<in_now, in_wake, inputRest>>

NextInput ==
  \/ input_tick
  \/ \E t \in InputThreads :
       \/ input_call(t)
       \/ is_safe_to_act_refuses(t)
       \/ is_safe_to_act_read(t)
       \/ is_safe_to_act_wake(t)
       \/ is_safe_to_act_admit(t)

SpecInput == InitInput /\ [][NextInput]_vars

\* ----------------------------------------------------------- ActivityMonitor
\* activity_monitoring_loop: record_activity, detect_bot_patterns, then
\* time.sleep(10).  The clock counts from the top of an hour.
monitorRest == <<config, running, paused, statVars, safetyVars, envVars, pc,
                 exitReason, raisedAt, iterVars, sessions, stopVars, preflight,
                 persistVars, guiVars, trigVars, schedVars, resVars, cornerVars,
                 docVars, cfgVars, journalVars, rndVars, inputVars,
             ledgerVars,
             planterVars,
             boostVars>>

InitMonitor ==
  /\ InitOrchestrator /\ config = FullConfig /\ safety_enabled
  /\ InitGui
  /\ BoostIdle
  /\ PlanterIdle
  /\ LedgerIdle
  /\ TrigIdle /\ SchedIdle /\ ResIdle /\ CornerIdle /\ DocIdle /\ CfgIdle
  /\ JournalIdle /\ RndIdle /\ InputIdle
  /\ mon_now \in {0, HourLen - MinActivityLog - 2}
  /\ mon_last = -1
  /\ activity_count = 0
  /\ bot_indicators = 0
  /\ decay_times = <<>>

monitor_tick ==
  /\ mon_now < MaxMonitorTime
  /\ mon_now' = mon_now + 1
  /\ UNCHANGED <<mon_last, activity_count, bot_indicators, decay_times, monitorRest>>

\* detect_bot_patterns: the value of bot_indicators after a call in which
\* check_regular_timing reported `regular`; check_inhuman_precision and
\* check_lack_of_idle return False
detect_bot_patterns(indicators, regular, t) ==
  LET counted == IF regular THEN indicators + 1 ELSE indicators
  IN IF t % HourLen < DecayWindow THEN Max(0, counted - 1) ELSE counted

\* the call has passed through `self.bot_indicators = max(0, ... - 1)` and the
\* value went down by it
Decayed(indicators, regular, t) ==
  /\ t % HourLen < DecayWindow
  /\ (IF regular THEN indicators + 1 ELSE indicators) > 0

\* one round of activity_monitoring_loop, 10 s or more after the last one
activity_monitoring_loop ==
  /\ mon_now > mon_last
  /\ mon_last' = mon_now
  /\ activity_count' = Min(MinActivityLog, activity_count + 1)
  /\ IF activity_count' < MinActivityLog
     THEN UNCHANGED <<bot_indicators, decay_times>>
     ELSE \E regular \in BOOLEAN :
            /\ regular => bot_indicators < MaxIndicators
            /\ bot_indicators' = detect_bot_patterns(bot_indicators, regular, mon_now)
            /\ decay_times' =
                 IF Decayed(bot_indicators, regular, mon_now)
                 THEN IF decay_times = <<>> THEN <<mon_now>>
                      ELSE <<decay_times[Len(decay_times)], mon_now>>
                 ELSE decay_times
  /\ UNCHANGED <<mon_now, monitorRest>>

NextMonitor ==
  \/ monitor_tick
  \/ activity_monitoring_loop

SpecMonitor == InitMonitor /\ [][NextMonitor]_vars

\* ------------------------------------------------------- session statistics
\* The counters handlers add to (pollen_collected, honey_made,
\* quests_completed), the runtime, and get_session_stats.  The amounts are
\* small stand-ins for the handlers' estimates.
Counters == {"pollen_collected", "honey_made", "quests_completed"}

Amounts(key) == IF key = "quests_completed" THEN {1} ELSE {3, 5}

ledgerRest == <<config, running, paused, statVars, safetyVars, envVars, pc,
                exitReason, raisedAt, iterVars, sessions, stopVars, preflight,
                persistVars, guiVars, trigVars, schedVars, resVars, cornerVars,
                docVars, cfgVars, journalVars, rndVars, inputVars, monitorVars,
             planterVars,
             boostVars>>

\* __init__: start_time = None; reset_session_stats.  time.time() is above 0.
InitLedger ==
  /\ InitOrchestrator /\ config = FullConfig /\ safety_enabled
  /\ InitGui
  /\ BoostIdle
  /\ PlanterIdle
  /\ TrigIdle /\ SchedIdle /\ ResIdle /\ CornerIdle /\ DocIdle /\ CfgIdle
  /\ JournalIdle /\ RndIdle /\ InputIdle /\ MonitorIdle
  /\ led_now = 1
  /\ led_start = <<>>
  /\ led_stats = <<[pollen_collected |-> 0, honey_made |-> 0,
                    quests_completed |-> 0, runtime |-> 0]>>
  /\ led_deltas = <<[k \in Counters |-> <<>>]>>
  /\ led_snapshot = <<>>

ledger_tick ==
  /\ led_now < MaxLedgerTime
  /\ led_now' = led_now + 1
  /\ led_snapshot' = <<>>
  /\ UNCHANGED <<led_start, led_stats, led_deltas, ledgerRest>>

\* run(): self.start_time = time.time(); the counters are left as they are
ledger_run ==
  /\ led_start = <<>>
  /\ led_start' = <<led_now>>
  /\ led_snapshot' = <<>>
  /\ UNCHANGED <<led_now, led_stats, led_deltas, ledgerRest>>

\* a handler's self.session_stats[key] += amount
ledger_add(key, amount) ==
  /\ Len(led_deltas[1][key]) < MaxRecords
  /\ led_stats' = <<[led_stats[1] EXCEPT ![key] = @ + amount]>>
  /\ led_deltas' = <<[led_deltas[1] EXCEPT ![key] = Append(@, amount)]>>
  /\ led_snapshot' = <<>>
  /\ UNCHANGED <<led_now, led_start, ledgerRest>>

\* update_session_stats: runtime is written only once start_time is set
update_session_stats_runtime ==
  IF led_start # <<>> /\ led_start[1] # 0
  THEN led_now - led_start[1]
  ELSE led_stats[1].runtime

HourSeconds == 3600

\* a rate that rounds up
per_hour_rounded_up(total, runtime) ==
  (total * HourSeconds + runtime - 1) \div runtime

\* int(total / (runtime / 3600)): the integer part of the quotient
per_hour(total, runtime) == (total * HourSeconds) \div runtime

\* get_session_stats: update_session_stats, a copy of the counters, and the
\* three rates when runtime > 0 (quests_per_hour is not passed through int()
\* and is kept as the fraction it is)
get_session_stats ==
  /\ led_snapshot = <<>>
  /\ LET runtime == update_session_stats_runtime
         stats == [led_stats[1] EXCEPT !.runtime = runtime]
     IN /\ led_stats' = <<stats>>
        /\ led_snapshot' =
             <<[stats |-> stats,
                rates |-> IF runtime > 0
                          THEN <<[pollen_per_hour |-> per_hour(stats.pollen_collected, runtime),
                                  honey_per_hour |-> per_hour(stats.honey_made, runtime),
                                  quests_per_hour |->
                                    [num |-> stats.quests_completed * HourSeconds,
                                     den |-> runtime]]>>
                          ELSE <<>>]>>
  /\ UNCHANGED <<led_now, led_start, led_deltas, ledgerRest>>

NextLedger ==
  \/ ledger_tick
  \/ ledger_run
  \/ \E key \in Counters : \E amount \in Amounts(key) : ledger_add(key, amount)
  \/ get_session_stats

SpecLedger == InitLedger /\ [][NextLedger]_vars

\* ------------------------------------------------------------ PlanterManager
\* manage_planters: harvest_ready_planters, plant_optimal_planters,
\* check_active_planters.  An entry is a record whose ready_time is <<t>>, or
\* <<>> when the dictionary stored for the field has no such key.
PlanterFields == {"Sunflower Field", "Dandelion Field"}

planterRest == <<config, running, paused, statVars, safetyVars, envVars, pc,
                 exitReason, raisedAt, iterVars, sessions, stopVars, preflight,
                 persistVars, guiVars, trigVars, schedVars, resVars, cornerVars,
                 docVars, cfgVars, journalVars, rndVars, inputVars, monitorVars,
                 ledgerVars,
             boostVars>>

\* __init__: self.active_planters = {}
InitPlanters ==
  /\ InitOrchestrator /\ config = FullConfig /\ safety_enabled
  /\ InitGui
  /\ BoostIdle
  /\ TrigIdle /\ SchedIdle /\ ResIdle /\ CornerIdle /\ DocIdle /\ CfgIdle
  /\ JournalIdle /\ RndIdle /\ InputIdle /\ MonitorIdle /\ LedgerIdle
  /\ planter_now = 0
  /\ active_planters = [f \in PlanterFields |-> <<>>]
  /\ planter_pc = "harvest"
  /\ planter_cycles = 1

planter_tick ==
  /\ planter_now < MaxPlanterTime
  /\ planter_now' = planter_now + 1
  /\ UNCHANGED <<active_planters, planter_pc, planter_cycles, planterRest>>

\* the readiness scan `current_time >= planter_info['ready_time']` meets an
\* entry without the key
ScanRaises ==
  \E f \in PlanterFields :
     active_planters[f] # <<>> /\ active_planters[f][1].ready_time = <<>>

\* harvest_ready_planters: the scan, then _harvest_planter on each ready
\* field, which is removed when the harvest succeeds.  A KeyError of the scan
\* leaves manage_planters (handle_planters logs it).
harvest_ready_planters ==
  /\ planter_pc = "harvest"
  /\ IF ScanRaises
     THEN planter_pc' = "raised" /\ UNCHANGED active_planters
     ELSE LET ready_planters ==
                {f \in PlanterFields :
                   /\ active_planters[f] # <<>>
                   /\ planter_now >= active_planters[f][1].ready_time[1]}
          IN /\ \E harvested \in SUBSET ready_planters :
                  active_planters' =
                    [f \in PlanterFields |->
                       IF f \in harvested THEN <<>> ELSE active_planters[f]]
             /\ planter_pc' = "plant"
  /\ UNCHANGED <<planter_now, planter_cycles, planterRest>>

\* plant_optimal_planters: _plant_planter on fields of the plan, which are
\* among the configured fields without an entry; each success is recorded
\* with plant_time and ready_time
plant_optimal_planters ==
  /\ planter_pc = "plant"
  /\ LET available_fields == {f \in PlanterFields : active_planters[f] = <<>>}
     IN \E planted \in SUBSET available_fields :
          active_planters' =
            [f \in PlanterFields |->
               IF f \in planted
               THEN <<[type |-> "planted", ready_time |-> <<planter_now + GrowthTime>>]>>
               ELSE active_planters[f]]
  /\ planter_pc' = "check"
  /\ UNCHANGED <<planter_now, planter_cycles, planterRest>>

\* check_active_planters: active_planters is replaced by what
\* _check_field_planter returns for the fields where it finds a planter:
\* {'type': 'unknown', 'status': 'growing', 'location': ...}
check_active_planters ==
  /\ planter_pc = "check"
  /\ \E seen \in SUBSET PlanterFields :
       active_planters' =
         [f \in PlanterFields |->
            IF f \in seen THEN <<[type |-> "unknown", ready_time |-> <<>>]>>
            ELSE <<>>]
  /\ planter_pc' = "returned"
  /\ UNCHANGED <<planter_now, planter_cycles, planterRest>>

\* handle_planters of the next macro cycle calls manage_planters again
manage_planters ==
  /\ planter_pc \in {"returned", "raised"}
  /\ planter_cycles < MaxPlanterCycles
  /\ planter_pc' = "harvest"
  /\ planter_cycles' = planter_cycles + 1
  /\ UNCHANGED <<planter_now, active_planters, planterRest>>

NextPlanters ==
  \/ planter_tick
  \/ harvest_ready_planters
  \/ plant_optimal_planters
  \/ check_active_planters
  \/ manage_planters

SpecPlanters == InitPlanters /\ [][NextPlanters]_vars

\* -------------------------------------------------------------- BoostManager
\* manage_all_boosts: cleanup_expired_boosts, check_active_boosts,
\* manage_field_dice, manage_enzymes, manage_glue,
\* manage_field_specific_boosts, use_optimal_boosts('farming').  An entry is a
\* record whose start_time is <<t>>, or <<>> when the dictionary stored for
\* the type has no such key (its duration comes and goes with start_time).
DiceTypes == {"field_dice", "smooth_dice", "loaded_dice"}

\* the boosts of the farming context, in the order of farming_boosts
farming_boosts == <<"field_dice", "smooth_dice", "loaded_dice", "enzymes", "glue", "oil">>

\* the current field is a white one, whose boost is coconut, or none
BoostTypes == DiceTypes \cup {"enzymes", "glue", "oil", "coconut"}

\* boost_data[...]['duration']: 15 min, oil and coconut 30 min, enzymes 10 min
BoostDuration(b) == IF b \in {"oil", "coconut"} THEN 2 ELSE 1

boostRest == <<config, running, paused, statVars, safetyVars, envVars, pc,
               exitReason, raisedAt, iterVars, sessions, stopVars, preflight,
               persistVars, guiVars, trigVars, schedVars, resVars, cornerVars,
               docVars, cfgVars, journalVars, rndVars, inputVars, monitorVars,
               ledgerVars, planterVars>>

\* __init__: self.active_boosts = {}; no boost is active in the game
InitBoosts ==
  /\ InitOrchestrator /\ config = FullConfig /\ safety_enabled
  /\ InitGui
  /\ TrigIdle /\ SchedIdle /\ ResIdle /\ CornerIdle /\ DocIdle /\ CfgIdle
  /\ JournalIdle /\ RndIdle /\ InputIdle /\ MonitorIdle /\ LedgerIdle
  /\ PlanterIdle
  /\ boost_now = 0
  /\ active_boosts = [b \in BoostTypes |-> <<>>]
  /\ boost_pc = "cleanup"
  /\ boost_cycles = 1
  /\ boost_used = <<>>
  /\ boost_live = [b \in BoostTypes |-> <<>>]

\* the boosts whose indicator is on the screen
Live == {b \in BoostTypes :
           boost_live[b] # <<>> /\ boost_now - boost_live[b][1] < BoostDuration(b)}

boost_tick ==
  /\ boost_now < MaxBoostTime
  /\ boost_now' = boost_now + 1
  /\ UNCHANGED <<active_boosts, boost_pc, boost_cycles, boost_used, boost_live, boostRest>>

\* `start_time = boost_data['start_time']` meets an entry without the key
CleanupRaises ==
  \E b \in BoostTypes :
     active_boosts[b] # <<>> /\ active_boosts[b][1].start_time = <<>>

\* cleanup_expired_boosts; a KeyError leaves manage_all_boosts
\* (handle_boosts logs it)
cleanup_expired_boosts ==
  /\ boost_pc = "cleanup"
  /\ IF CleanupRaises
     THEN boost_pc' = "raised" /\ UNCHANGED active_boosts
     ELSE /\ active_boosts' =
               [b \in BoostTypes |->
                  IF /\ active_boosts[b] # <<>>
                     /\ boost_now - active_boosts[b][1].start_time[1] >= BoostDuration(b)
                  THEN <<>> ELSE active_boosts[b]]
          /\ boost_pc' = "check"
  /\ UNCHANGED <<boost_now, boost_cycles, boost_used, boost_live, boostRest>>

\* what check_active_boosts stores: {'remaining_time': ..., 'info': ...} for
\* each boost whose indicator find_template finds
Detected ==
  [b \in BoostTypes |-> IF b \in Live THEN <<[start_time |-> <<>>]>> ELSE <<>>]

\* check_active_boosts: active_boosts is replaced
check_active_boosts ==
  /\ boost_pc = "check"
  /\ active_boosts' = Detected
  /\ boost_pc' = "dice"
  /\ UNCHANGED <<boost_now, boost_cycles, boost_used, boost_live, boostRest>>

\* _use_boost on success: the entry with start_time and duration, and the
\* boost becomes active in the game
UseBoost(boosts, b) ==
  /\ active_boosts' = [boosts EXCEPT ![b] = <<[start_time |-> <<boost_now>>]>>]
  /\ boost_used' = Append(boost_used, b)
  /\ boost_live' = [boost_live EXCEPT ![b] = <<boost_now>>]

\* one of the managers of a single boost: nothing is used, or _has_boost and
\* _use_boost succeed for one of `candidates`
ManagerStep(here, next, candidates) ==
  /\ boost_pc = here
  /\ boost_pc' = next
  /\ \/ UNCHANGED <<active_boosts, boost_used, boost_live>>
     \/ \E b \in candidates : UseBoost(active_boosts, b)
  /\ UNCHANGED <<boost_now, boost_cycles, boostRest>>

\* manage_field_dice: no dice when one of the three is in active_boosts
manage_field_dice ==
  ManagerStep("dice", "enzymes",
              IF \E d \in DiceTypes : active_boosts[d] # <<>> THEN {} ELSE DiceTypes)

manage_enzymes ==
  ManagerStep("enzymes", "glue",
              IF active_boosts["enzymes"] # <<>> THEN {} ELSE {"enzymes"})

manage_glue ==
  ManagerStep("glue", "field",
              IF active_boosts["glue"] # <<>> THEN {} ELSE {"glue"})

manage_field_specific_boosts ==
  ManagerStep("field", "optimal",
              IF active_boosts["coconut"] # <<>> THEN {} ELSE {"coconut"})

\* _get_optimal_boosts_for_context('farming', ...): the first boost of
\* farming_boosts that is available and not active, if there is one
get_optimal_boosts_for_context(available_boosts, active) ==
  LET fits == {i \in 1..Len(farming_boosts) :
                 /\ farming_boosts[i] \in available_boosts
                 /\ farming_boosts[i] \notin active}
  IN IF fits = {} THEN {}
     ELSE {farming_boosts[CHOOSE i \in fits : \A j \in fits : i <= j]}

\* use_optimal_boosts('farming'): return when the inventory shows nothing;
\* else check_active_boosts replaces active_boosts, and the boost chosen from
\* what is available is used if _use_boost succeeds
use_optimal_boosts ==
  /\ boost_pc = "optimal"
  /\ boost_pc' = "returned"
  /\ \E available_boosts \in SUBSET BoostTypes :
       IF available_boosts = {}
       THEN UNCHANGED <<active_boosts, boost_used, boost_live>>
       ELSE \/ /\ active_boosts' = Detected
               /\ UNCHANGED <<boost_used, boost_live>>
            \/ \E b \in get_optimal_boosts_for_context(available_boosts, Live) :
                 UseBoost(Detected, b)
  /\ UNCHANGED <<boost_now, boost_cycles, boostRest>>

\* handle_boosts of the next macro cycle calls manage_all_boosts again
manage_all_boosts ==
  /\ boost_pc \in {"returned", "raised"}
  /\ boost_cycles < MaxBoostCycles
  /\ boost_pc' = "cleanup"
  /\ boost_cycles' = boost_cycles + 1
  /\ boost_used' = <<>>
  /\ UNCHANGED <<boost_now, active_boosts, boost_live, boostRest>>

NextBoosts ==
  \/ boost_tick
  \/ cleanup_expired_boosts
  \/ check_active_boosts
  \/ manage_field_dice
  \/ manage_enzymes
  \/ manage_glue
  \/ manage_field_specific_boosts
  \/ use_optimal_boosts
  \/ manage_all_boosts

SpecBoosts == InitBoosts /\ [][NextBoosts]_vars

TypeOK ==
  /\ config \in Configs
  /\ running \in BOOLEAN /\ paused \in BOOLEAN
  /\ emergency_stop \in BOOLEAN /\ safety_enabled \in BOOLEAN
  /\ now \in 0..MaxTime /\ last_break_time \in 0..MaxTime
  /\ pointer \in Pointers
  /\ pc \in {"idle", "preflight", "preflight_branch", "loop_running", "loop_safe", "loop_adv",
             "pause_check", "break_check", "take_break", "update_state",
             "update_stats", "except", "cleanup"} \cup Categories
  /\ gate \in {"none", "passed", "failed"}
  /\ breakChecked \in BOOLEAN
  /\ sessions \in 0..MaxSessions
  /\ preflight \in {<<>>} \cup {<<r>> : r \in PreFlightSamples}
  /\ Len(snapshots) <= 2
  /\ cleanupResult \in {"none", "saved", "failed"}
  /\ appClosed \in BOOLEAN

\* ------------------------------------------------------------------ helpers
Enabled(cat) == cat = "maintenance" \/ config[cat] = "on"

IndexOf(cat) == CHOOSE i \in 1..Len(Priority) : Priority[i] = cat

\* the enabled categories in priority order
EnabledInOrder == SelectSeq(Priority, Enabled)

CyclePcs == {"update_state"} \cup Categories

LoopEnded == sessions > 0 /\ pc \in {"cleanup", "idle"}

\* run() has returned
Returned == sessions > 0 /\ pc = "idle"

\* a pre-flight check did not succeed
FailedCheck(r) ==
  \/ r.roblox = "absent"
  \/ r.bss \in {"absent", "raises"}
  \/ r.templates = "missing"
  \/ r.input = "fails"

\* the types of the armed triggers, in the order of the list
ArmedTypes ==
  LET armed == SelectSeq(trig_list, LAMBDA trigger : trigger.active)
  IN [i \in 1..Len(armed) |-> armed[i].type]

\* the trigger of the list that has the type ty
TriggerOf(ty) == trig_list[CHOOSE i \in 1..Len(trig_list) : trig_list[i].type = ty]

\* entries of the break schedule whose taken flag the step sets
Flipped == {i \in 1..Len(break_schedule) :
              ~break_schedule[i].taken /\ break_schedule'[i].taken}

\* ------------------------------------------------------------------- claims

\* C1: in the first session of a controller (errors_encountered counts from
\* 0) the failures so far are at least the exceptions the loop has counted
\* plus a failure a handler has just logged; once they exceed ErrorBudget (10)
\* the loop is stopped: the 11th failure is being handled by the loop, or
\* run() is in or past its cleanup.
C1_ErrorBudget ==
  (sessions = 1 /\ session_stats.errors_encountered
                    + (IF handlerFailed THEN 1 ELSE 0) > ErrorBudget)
     => pc \in {"except", "cleanup", "idle"}

\* C2: a failure raised while a category is being dispatched does not abort
\* the cycle: no cycle is left for the loop's exception handler with a later
\* enabled category not dispatched.
C2_FailureKeepsCycle ==
  (pc = "except" /\ raisedAt \in Categories) =>
     \A c \in Categories :
        (IndexOf(c) > IndexOf(raisedAt) /\ Enabled(c)) =>
           \E i \in 1..Len(dispatched) : dispatched[i] = c

\* C3: every step in which a task handler fails adds exactly one to
\* errors_encountered.
C3_HandlerFailureCounted ==
  [][(~handlerFailed /\ handlerFailed') =>
       session_stats'.errors_encountered = session_stats.errors_encountered + 1]_vars

\* C4: the handlers dispatched in a cycle are always a prefix of the enabled
\* categories in priority order (fixed order, none twice, none disabled), and
\* a cycle that reached dispatch ends with all of them dispatched.
C4_DispatchOrder ==
  /\ Len(dispatched) <= Len(EnabledInOrder)
  /\ dispatched = SubSeq(EnabledInOrder, 1, Len(dispatched))
  /\ (pc = "update_stats" \/ (pc = "except" /\ raisedAt \in Categories)) =>
        dispatched = EnabledInOrder

\* C5: a handler is dispatched in an iteration only after the loop condition
\* (the safety gate) passed and then the break-due check was made in that
\* iteration; in an iteration whose gate failed no handler is dispatched.
C5_GateThenBreakThenDispatch ==
  /\ (pc \in CyclePcs \/ dispatched # <<>>) => (gate = "passed" /\ breakChecked)
  /\ breakChecked => gate = "passed"
  /\ gate = "failed" => (dispatched = <<>> /\ pc \in {"cleanup", "idle"})

C5_Witness ==
  /\ Len(dispatched) > 1
  /\ gate = "passed"
  /\ breakChecked

\* C6: the step that takes a scheduled break dispatches nothing and leaves
\* the loop running (it goes on to the next iteration).
C6_ScheduledBreakKeepsRunning ==
  [][break_schedule' # break_schedule =>
       (dispatched' = <<>> /\ pc' \notin {"cleanup", "idle"})]_vars

\* C7: while the failsafe-position condition holds during a cycle, no further
\* handler of that cycle is dispatched.
C7_EmergencyBypassesHandlers ==
  [][(pointer = "origin" /\ pc \in CyclePcs) => dispatched' = dispatched]_vars

\* C8: once the loop has ended, is_running() returns false and no handler is
\* being dispatched.
C8_StoppedAfterLoopEnd ==
  LoopEnded => (~running /\ pc \notin CyclePcs)

\* C9: at the beginning of every session all counters are zero.
C9_StartResetsStats ==
  pc = "preflight" => session_stats = reset_session_stats

C12_SnapshotWriteOnce ==
  Len(snapshots) <= 1

\* C13: when a pre-flight check has failed, run() leaves the pre-flight
\* branch for its cleanup: the loop is not entered.
C13_PreflightFailureAborts ==
  [][(pc = "preflight_branch" /\ pc' # pc /\ FailedCheck(preflight[1]))
        => pc' = "cleanup"]_vars

\* C14: a step of the loop thread, from the loop head up to the pause
\* check, that is taken while the controller is paused dispatches nothing,
\* takes no break and changes no counter; pause() and resume() change
\* nothing but the flag.
C14_PausedIterationIsNoOp ==
  [][/\ (paused /\ paused'
         /\ pc \in {"loop_running", "loop_safe", "loop_adv", "pause_check"}
         /\ pc' # pc)
        => /\ session_stats' = session_stats
           /\ break_schedule' = break_schedule
           /\ last_break_time' = last_break_time
           /\ dispatched' = <<>>
     /\ (paused' # paused /\ pc' = pc)
        => UNCHANGED <<config, running, statVars, safetyVars, envVars,
                       exitReason, raisedAt, iterVars, sessions, stopVars, auxVars>>]_vars

\* C15: at no time are two threads inside the loop of run(), and at no
\* time are two threads inside a macro cycle.
C15_OneLoopAtATime ==
  /\ Cardinality({th \in GuiThreads : thread_pc[th] \in {"while", "cycle"}}) <= 1
  /\ Cardinality({th \in GuiThreads : thread_pc[th] = "cycle"}) <= 1

\* C16: the schedule keeps its entries and their times; a taken flag that is
\* set stays set; a step sets at most one flag; and the step in which the
\* break-due check finds an entry sets the flag of exactly that entry, the
\* first one that is due and not yet taken.
C16_TakenFlagsOnlyRise ==
  [][/\ Len(break_schedule') = Len(break_schedule)
     /\ \A i \in 1..Len(break_schedule) :
           /\ break_schedule'[i].time = break_schedule[i].time
           /\ break_schedule[i].taken => break_schedule'[i].taken
     /\ Cardinality(Flipped) <= 1
     /\ (pc = "loop_adv" /\ exitReason' = "scheduled_break")
           => (Flipped # {}
               /\ \A i \in Flipped :
                     /\ break_schedule[i].time <= now
                     /\ \A j \in 1..(i - 1) :
                           break_schedule[j].taken \/ break_schedule[j].time > now)]_vars

\* a later session whose break-due check has passed over the entry taken
\* before and taken the next one
C16_Witness ==
  /\ sessions = 2
  /\ pc = "cleanup"
  /\ exitReason = "scheduled_break"
  /\ break_schedule[1].taken
  /\ break_schedule[2].taken
  /\ ~break_schedule[3].taken

\* C17: a session that took a scheduled break and ends with the clock past
\* every scheduled time has taken every entry.
C17_AllBreaksFireInSession ==
  (pc = "cleanup" /\ exitReason = "scheduled_break"
     /\ \A i \in 1..Len(break_schedule) : break_schedule[i].time <= now)
    => \A i \in 1..Len(break_schedule) : break_schedule[i].taken

C19_FirstArmedTriggerWins ==
  /\ [i \in 1..Len(trig_list) |-> trig_list[i].type]
        = [i \in 1..Len(setup_emergency_triggers) |-> setup_emergency_triggers[i].type]
  /\ Len(trig_evaluated) <= Len(ArmedTypes)
  /\ \A i \in 1..Len(trig_evaluated) : trig_evaluated[i] = ArmedTypes[i]
  /\ \A i \in 1..(Len(trig_evaluated) - 1) : ~Fires(TriggerOf(trig_evaluated[i]))
  /\ trig_result = "pending" =>
        (trig_evaluated # <<>> => ~Fires(TriggerOf(trig_evaluated[Len(trig_evaluated)])))
  /\ trig_result = "none" =>
        /\ trig_evaluated = ArmedTypes
        /\ \A i \in 1..Len(trig_evaluated) : ~Fires(TriggerOf(trig_evaluated[i]))
  /\ trig_result \notin {"pending", "none"} =>
        /\ trig_evaluated # <<>>
        /\ trig_result = trig_evaluated[Len(trig_evaluated)]
        /\ Fires(TriggerOf(trig_result))
        /\ trig_env[1].broken = {} =>
              trig_result = FirstTrigger(trig_list, 1, trig_env[1].ptr, trig_env[1].keys,
                                         trig_env[1].proc, trig_env[1].cpu,
                                         trig_env[1].mem, trig_env[1].t)

\* the key combination ends an evaluation in which the pointer trigger is
\* disarmed and the process, resource and time-limit triggers would fire too
C19_Witness ==
  /\ trig_result = "key_combo"
  /\ trig_evaluated = <<"key_combo">>
  /\ ~trig_list[1].active
  /\ trig_env[1].broken = {}
  /\ \A i \in 2..5 : trig_list[i].active /\ Fires(trig_list[i])

\* C20: when every trigger of the list is disarmed, the evaluation of the
\* triggers ends with none fired and the safety manager reports that it is
\* safe to continue, without raising its emergency flag.
C20_DisarmedNeverFires ==
  (\A i \in 1..Len(trig_list) : ~trig_list[i].active) =>
     /\ trig_result \in {"pending", "none"}
     /\ trig_evaluated = <<>>
     /\ safe_result \in {"pending", "safe"}
     /\ ~emergency_stop

\* C21: check_safety_conditions tells the loop to stop on account of the
\* resource readings only when one of its readings showed a CPU
\* utilisation above 90 or a memory utilisation above 95.
C21_HaltOnlyAboveEmergencyThresholds ==
  res_verdict \in {"halt_emergency", "halt_resources"} =>
     \E i \in 1..Len(res_samples) :
        /\ ~res_samples[i].raised
        /\ (res_samples[i].cpu > CpuEmergency \/ res_samples[i].mem > MemEmergency)

\* C22: the time-limit trigger does not fire in a session that has run for
\* less than the ceiling.
C22_TimeLimitMeasuresSession ==
  trig_result = "time_limit" =>
     trig_env[1].t - trig_env[1].started >= TimeLimit

\* C23: a trigger whose primitive raises does not fire and does not end the
\* evaluation: every armed trigger up to the first one that fires is still
\* called, the broken ones included, and the evaluation ends with the first
\* armed trigger whose primitive works and whose condition holds, or with
\* "none".
C23_BrokenPrimitiveFailsOpen ==
  LET sound(i) == /\ trig_list[i].active
                  /\ trig_list[i].type \notin trig_env[1].broken
                  /\ Fires_without_except(trig_list[i])
      hits == {i \in 1..Len(trig_list) : sound(i)}
  IN trig_result # "pending" =>
        /\ trig_result \in {"none"} \cup {trig_list[i].type : i \in 1..Len(trig_list)}
        /\ trig_result \notin trig_env[1].broken
        /\ hits = {} => (trig_result = "none" /\ trig_evaluated = ArmedTypes)
        /\ hits # {} =>
              LET first == CHOOSE i \in hits : \A j \in hits : i <= j
              IN /\ trig_result = trig_list[first].type
                 /\ \A j \in 1..first :
                       trig_list[j].active =>
                          \E k \in 1..Len(trig_evaluated) :
                             trig_evaluated[k] = trig_list[j].type

\* the pointer is in the corner but its primitive raises: the key
\* combination, evaluated next, ends the evaluation
C23_Witness ==
  /\ trig_result = "key_combo"
  /\ trig_evaluated = <<"mouse_corner", "key_combo">>
  /\ trig_env[1].ptr = "origin"
  /\ trig_env[1].broken = {"mouse_corner"}

\* C24: the pointer trigger fires exactly when the pointer is no more than
\* 5 pixels away, along each axis, from one of the four corner pixels of the
\* screen; at (0,0) on a 1920x1080 screen it fires.
C24_FiresExactlyNearACorner ==
  corner_out # "pending" =>
     LET p == corner_in[1]
         near == \E cx \in {0, p.w - 1}, cy \in {0, p.h - 1} :
                    /\ p.x \in (cx - 5)..(cx + 5)
                    /\ p.y \in (cy - 5)..(cy + 5)
     IN /\ corner_out = "fires" <=> near
        /\ (p.x = 0 /\ p.y = 0 /\ p.w = 1920 /\ p.h = 1080) => corner_out = "fires"

\* the trigger has fired for a pointer 5 pixels inside the bottom-right
\* corner of a 1920x1080 screen
C24_Witness ==
  /\ corner_out = "fires"
  /\ corner_in = <<[x |-> 1914, y |-> 1074, w |-> 1920, h |-> 1080]>>

\* C25: whatever a component has read since the latest run(config), it has
\* read from the document that run(config) supplied, the one the
\* orchestrator holds.
C25_AllReadTheSuppliedDocument ==
  \A c \in Components :
     doc_read[c] \in {-1, doc_held["orchestrator"]}

\* C26: when the configuration file is missing or malformed, the
\* construction of the controller ends normally, with a document that has
\* all ten recognised sections.
C26_FallbackConstructs ==
  (cfg_file.kind \in {"missing", "malformed"} /\ construct_pc \in {"done", "raised"})
     => (construct_pc = "done" /\ cfg_doc[1].sections = Sections)

\* C27: should_break_pattern returns true exactly when the journal has at
\* least 5 entries and its last 5 entries carry the same action.
C27_TrueExactlyOnFiveAlike ==
  break_pattern # "pending" =>
     (break_pattern = "true" <=>
        /\ Len(action_history) >= 5
        /\ \A i \in (Len(action_history) - 4)..Len(action_history) :
              action_history[i].action = action_history[Len(action_history)].action)

\* five appends of one action followed by an append of another one: false
C27_Witness ==
  /\ Len(action_history) = 6
  /\ \A i \in 1..5 : action_history[i].action = "collect"
  /\ action_history[6].action = "convert"
  /\ break_pattern = "false"

\* C28: a record() leaves the journal as what it was plus the new entry,
\* less a number of its oldest entries: every entry left is younger than the
\* retention window at the time of the append and no later than it, every
\* entry dropped is at least as old as the window, and the order of the
\* entries is the order of their appends.
C28_JournalWithinWindow ==
  [][action_history' # action_history =>
       \E action \in ActionIds, k \in 0..Len(action_history) :
          LET appended == Append(action_history,
                                 [action |-> action, timestamp |-> journal_now])
          IN /\ action_history' = SubSeq(appended, k + 1, Len(appended))
             /\ \A i \in 1..k : appended[i].timestamp <= journal_now' - RetentionWindow
             /\ \A i \in 1..Len(action_history') :
                   /\ action_history'[i].timestamp > journal_now - RetentionWindow
                   /\ action_history'[i].timestamp <= journal_now
             /\ \A i, j \in 1..Len(action_history') :
                   i < j => action_history'[i].timestamp <= action_history'[j].timestamp]_vars

\* the journal after an append at the end of the clock, its oldest entry at
\* the edge of the window
C28_Witness ==
  /\ journal_now = MaxJournalTime
  /\ Len(action_history) = 3
  /\ action_history[3].timestamp = journal_now
  /\ action_history[1].timestamp = journal_now - RetentionWindow + 1

RandomizerFunctions ==
  {"randomize_timing", "randomize_position", "randomize_movement",
   "should_take_micro_break"}

\* C29: with general.randomization_enabled false, randomize_timing and
\* randomize_movement return the duration they were given, randomize_position
\* returns the position it was given and should_take_micro_break returns
\* false, whatever the randomization magnitudes of the document.
C29_DisabledIsIdentity ==
  (rnd_call # <<>> /\ rnd_call[1].fn \in RandomizerFunctions
     /\ ~rnd_cfg[1].randomization_enabled) =>
       IF rnd_call[1].fn = "should_take_micro_break"
       THEN rnd_call[1].landed = <<FALSE>>
       ELSE rnd_call[1].landed = rnd_call[1].given

\* randomize_position has returned (960, 540) with the flag off and a
\* click_randomization of 0.2
C29_Witness ==
  /\ rnd_call # <<>>
  /\ ~rnd_cfg[1].randomization_enabled
  /\ rnd_cfg[1].click_randomization = 2
  /\ rnd_call[1].fn = "randomize_position"
  /\ rnd_call[1].given = <<960, 540>>
  /\ rnd_call[1].landed = <<960, 540>>

\* C30: with general.randomization_enabled false, a click lands on the
\* position given, a key is held for the time given and a move takes the
\* duration given.
C30_DisabledInputIsExact ==
  (rnd_call # <<>> /\ rnd_call[1].fn \notin RandomizerFunctions
     /\ rnd_call[1].landed # <<>>
     /\ ~rnd_cfg[1].randomization_enabled) =>
       rnd_call[1].landed = rnd_call[1].given

\* C31: a duration returned by randomize_timing or randomize_movement, and a
\* time safe_key_press holds a key for, is never negative and lies between
\* base * (1 - variance) and base * (1 + variance), the variance being
\* pause_randomization (movement_randomization for randomize_movement).
C31_JitterWithinVariance ==
  (rnd_call # <<>> /\ rnd_call[1].landed # <<>>
     /\ rnd_call[1].fn \in {"randomize_timing", "randomize_movement", "safe_key_press"}) =>
       LET base == rnd_call[1].given[1]
           variance == IF rnd_call[1].fn = "randomize_movement"
                       THEN rnd_cfg[1].movement_randomization
                       ELSE rnd_cfg[1].pause_randomization
       IN /\ rnd_call[1].landed[1] >= 0
          /\ rnd_call[1].landed[1] * 10 >= base * (10 - variance)
          /\ rnd_call[1].landed[1] * 10 <= base * (10 + variance)

\* C32: two input actions admitted one after the other are at least the
\* minimum inter-action delay apart.
C32_ActionsAreSpaced ==
  \A i \in 1..(Len(admitted) - 1) :
     admitted[i + 1] - admitted[i] >= ActionDelayBase

\* C33: two calls of detect_bot_patterns that lower bot_indicators are at
\* least one hour apart.
C33_DecayOncePerHour ==
  Len(decay_times) = 2 => decay_times[2] - decay_times[1] >= HourLen

RECURSIVE SumSeq(_)
SumSeq(q) == IF q = <<>> THEN 0 ELSE q[1] + SumSeq(Tail(q))

\* the rates are in the snapshot exactly when its runtime is above 0, and
\* each counter is the sum of the amounts added to it
SnapshotShape ==
  LET s == led_snapshot[1]
  IN /\ s.rates # <<>> <=> s.stats.runtime > 0
     /\ \A k \in Counters : s.stats[k] = SumSeq(led_deltas[1][k])
     /\ s.rates # <<>> =>
          s.rates[1].quests_per_hour.num * s.stats.runtime
            = s.stats.quests_completed * HourSeconds * s.rates[1].quests_per_hour.den

C35_StopIsNotLost ==
  [][\A th \in GuiThreads :
        (thread_pc[th] # "cycle" /\ thread_pc'[th] = "cycle")
           => gui_buttons = "running"]_vars

\* C37: when every macro thread has ended and the stop_macro calls they
\* queued have run, the GUI is in its stopped state (Start enabled) and the
\* controller has been told to stop.
C37_GuiStoppedAfterThreadEnds ==
  ((\A th \in GuiThreads : thread_pc[th] \in {"new", "done"}) /\ after_queue = 0)
     => (gui_buttons = "stopped" /\ ~running)

\* C36: once SafetyManager.emergency_stop is set it stays set, every later
\* is_safe_to_continue reports unsafe and ends the loop, and no handler is
\* dispatched any more, in that session or in a later one.
C36_EmergencyStopLatches ==
  [][emergency_stop =>
       /\ emergency_stop'
       /\ (pc = "loop_safe" /\ pc' # pc) =>
            (gate' = "failed" /\ exitReason' = "emergency")
       /\ Len(dispatched') <= Len(dispatched)]_vars

\* a run() after the one that set the latch is at its first gate, the
\* pointer back in the middle of the screen
C36_Witness ==
  /\ emergency_stop
  /\ sessions = 2
  /\ pc = "loop_safe"
  /\ pointer = "center"
  /\ dispatched = <<>>

\* C38: between manage_planters cycles every entry of active_planters has a
\* ready_time, and the readiness scan of harvest_ready_planters completes.
C38_EntriesCarryReadyTime ==
  /\ planter_pc \in {"returned", "harvest"} =>
       \A f \in PlanterFields :
          active_planters[f] # <<>> => active_planters[f][1].ready_time # <<>>
  /\ planter_pc # "raised"

\* C39: between manage_all_boosts cycles every entry of active_boosts has a
\* start_time and a duration, and cleanup_expired_boosts completes.
C39_EntriesCarryStartTime ==
  /\ boost_pc \in {"returned", "cleanup"} =>
       \A b \in BoostTypes :
          active_boosts[b] # <<>> => active_boosts[b][1].start_time # <<>>
  /\ boost_pc # "raised"

\* C40: at most one dice type is active at a time, and one manage_all_boosts
\* cycle activates at most one dice type.
C40_OneDiceAtATime ==
  /\ Cardinality(Live \cap DiceTypes) <= 1
  /\ Cardinality({boost_used[i] : i \in 1..Len(boost_used)} \cap DiceTypes) <= 1

====
